---- MODULE Spec2Model ----
(***************************************************************************)
(* Expectation-to-metric resolution and validation engine of               *)
(* great_expectations:                                                     *)
(*   - the map-expectation verdict (ColumnMapExpectation._validate,        *)
(*     ColumnPairMapExpectation._validate, Expectation.metrics_validate),  *)
(*   - the tiered result formatter (_format_map_output),                   *)
(*   - the bundled aggregate execution of the Spark engine                 *)
(*     (SparkDFExecutionEngine.resolve_metric_bundle, get_compute_domain), *)
(*   - the metric requests of a map expectation                            *)
(*     (get_runtime_kwargs, get_validation_dependencies),                  *)
(*   - the data assets InferredAssetSqlDataConnector infers from a SQL     *)
(*     database (_introspect_db, the cache of the introspected assets).    *)
(*                                                                         *)
(* Python values are encoded as follows.  An optional value is a sequence  *)
(* of length at most one: None is <<>>, a present value v is <<v>>.  A     *)
(* dict is a function from its keys.  A call either returns a value or     *)
(* raises: Return(v) / Raise(e).  A float that results from one division   *)
(* is kept as the exact fraction <<numerator, denominator>> in lowest      *)
(* terms.                                                                  *)
(***************************************************************************)
EXTENDS Integers, Sequences, FiniteSets, TLC

VARIABLES
  f_in,                 \* arguments of the _format_map_output call
  f_out,                \* its outcome
  self_configuration,   \* Expectation._configuration of the instance
  v_in,                 \* arguments of the _validate / metrics_validate call
  v_out,                \* its outcome
  loaded_batch_data,    \* ExecutionEngine: batch id -> data of the loaded batches
  active_batch_id,      \* ExecutionEngine: id of the active batch, or None
  b_in,                 \* the metric_fn_bundle of the resolve_metric_bundle call
  b_out,                \* its outcome
  agg_log,              \* backend round trips (df.agg(...).collect()) of the run, call by call
  d_in,                 \* the domain_kwargs of the get_compute_domain call
  d_out,                \* its outcome
  d_filters,            \* the data.filter(...) calls it made
  d_arg,                \* the caller's domain_kwargs mapping, as it is after the call
  s_arg,                \* the caller's object passed to the engine (a BatchSpec, a DataFrame), as it is now
  s_in,                 \* the engine method called, and its arguments as they were passed
  s_out,                \* its outcome
  s_log,                \* the splitter / sampler calls made, in order
  c_in,                 \* class and configuration of the validate_configuration call
  c_out,                \* its outcome, and the configuration object after the call
  classes,              \* the expectation classes defined so far, by class name
  registry,             \* the expectation registry: registered name -> class name
  g_in,                 \* arguments of the get_validation_dependencies call
  g_out,                \* its outcome
  g_conf,               \* the caller's ExpectationConfiguration, as it is after the call
  g_fmt,                \* the result_format _validate formats with, for the same arguments
  database,             \* the SQL database: its schemas, their tables and views
  connector,            \* the InferredAssetSqlDataConnector: its settings, whether its constructor returned
  data_assets,          \* its _introspected_data_assets_cache
  r_out,                \* the outcome of its latest cache refresh
  i_in,                 \* the directives of the _introspect_db call
  i_out                 \* its outcome

formatVars == <<f_in, f_out>>
validateVars == <<self_configuration, v_in, v_out>>
engineVars == <<loaded_batch_data, active_batch_id, b_in, b_out, agg_log>>
domainVars == <<d_in, d_out, d_filters, d_arg>>
batchVars == <<s_arg, s_in, s_out, s_log>>
configVars == <<c_in, c_out>>
registryVars == <<classes, registry>>
depsVars == <<g_in, g_out, g_conf, g_fmt>>
connectorVars == <<database, connector, data_assets, r_out, i_in, i_out>>

vars == <<formatVars, validateVars, engineVars, domainVars, batchVars,
          configVars, registryVars, depsVars, connectorVars>>

----------------------------------------------------------------------------
(* Bounds of the model *)

MaxCount == 2      \* row / null / unexpected counts range over 0..MaxCount
MaxLen == 3        \* longest unexpected_list
MaxVal == 2        \* unexpected values are Unhashable and 1..MaxVal
MaxPartial == 2    \* partial_unexpected_count ranges over 0..MaxPartial

----------------------------------------------------------------------------
(* Python values *)

None == <<>>
Some(v) == <<v>>
IsNone(x) == x = <<>>
Val(x) == x[1]

Return(v) == [exc |-> "none", value |-> v]
Raise(e) == [exc |-> e]
NotCalled == [exc |-> "not_called"]
Returned(r) == r.exc = "none"
Raised(r) == r.exc \notin {"none", "not_called"}

\* dict.get(key) with the default None
Get(d, key) == IF key \in DOMAIN d THEN Some(d[key]) ELSE None

Min(a, b) == IF a < b THEN a ELSE b

RECURSIVE GCD(_, _)
GCD(a, b) == IF b = 0 THEN a ELSE GCD(b, a % b)

\* the sequences over S of length at most n
SeqsUpTo(S, n) == UNION {[1..k -> S] : k \in 0..n}

\* list[:n] for n >= 0
Slice(list, n) == SubSeq(list, 1, Min(n, Len(list)))

\* the element of the unexpected values that stands for an unhashable value
\* (a list or a dict): Counter() raises TypeError on it
Unhashable == 0
Values == {Unhashable} \cup (1..MaxVal)

----------------------------------------------------------------------------
(* _format_map_output *)

ResultFormats == <<"BOOLEAN_ONLY", "BASIC", "SUMMARY", "COMPLETE">>
KnownFormats == {ResultFormats[i] : i \in 1..Len(ResultFormats)}
UnknownFormat == "UNKNOWN"

\* a / b * 100 as an exact fraction in lowest terms (b > 0, a >= 0)
Percent(a, b) ==
  LET g == GCD(100 * a, b) IN <<(100 * a) \div g, b \div g>>

\* nonnull_count is None: skip_missing, and missing_count is None
MissingCount(element_count, nonnull_count) ==
  IF IsNone(nonnull_count) THEN None
  ELSE Some(Val(element_count) - Val(nonnull_count))

\* the guards of the two divisions: "if element_count > 0" and
\* "if nonnull_count > 0"
GuardElementCount(element_count) == Val(element_count) > 0
\* mutant: the guard lets nonnull_count = 0 through
GuardNonnullCount_NonNegative(nonnull_count) == Val(nonnull_count) >= 0
GuardNonnullCount(nonnull_count) == Val(nonnull_count) > 0

\* a division is executed with a divisor that is 0
FormatZeroDivision(element_count, nonnull_count) ==
  /\ GuardElementCount(element_count)
  /\ \/ Val(element_count) = 0
     \/ /\ ~IsNone(nonnull_count)
        /\ GuardNonnullCount(nonnull_count)
        /\ Val(nonnull_count) = 0

UnexpectedPercent(element_count, unexpected_count) ==
  IF GuardElementCount(element_count)
  THEN Some(Percent(Val(unexpected_count), Val(element_count)))
  ELSE None

MissingPercent(element_count, nonnull_count) ==
  IF GuardElementCount(element_count)
  THEN Some(Percent(Val(MissingCount(element_count, nonnull_count)), Val(element_count)))
  ELSE None

UnexpectedPercentNonmissing(element_count, nonnull_count, unexpected_count) ==
  IF GuardElementCount(element_count) /\ GuardNonnullCount(nonnull_count)
  THEN Some(Percent(Val(unexpected_count), Val(nonnull_count)))
  ELSE None

\* mutant: the list is not truncated
PartialUnexpectedList_Untruncated(unexpected_list, limit) == unexpected_list

\* unexpected_list[: result_format["partial_unexpected_count"]]
PartialUnexpectedList(unexpected_list, limit) == Slice(unexpected_list, limit)

\* the distinct elements of a list in the order of their first occurrence
\* (the key order of Counter(list))
RECURSIVE DistinctInOrder(_)
DistinctInOrder(list) ==
  IF list = <<>> THEN <<>>
  ELSE LET d == DistinctInOrder(SubSeq(list, 1, Len(list) - 1))
           last == list[Len(list)]
       IN IF \E i \in 1..Len(d) : d[i] = last THEN d ELSE Append(d, last)

\* Counter(list).items(): <<value, count>> pairs in insertion order
CounterItems(list) ==
  LET d == DistinctInOrder(list)
  IN [i \in 1..Len(d) |->
        <<d[i], Cardinality({j \in 1..Len(list) : list[j] = d[i]})>>]

\* items sorted by a strict total order on its positions, given as the set
\* before of the pairs <<j, i>> with position j ordered before position i
SortedBy(items, before) ==
  [k \in 1..Len(items) |->
     items[CHOOSE i \in 1..Len(items) :
             Cardinality({j \in 1..Len(items) : <<j, i>> \in before}) = k - 1]]

Positions(items) == (1..Len(items)) \X (1..Len(items))

\* Counter.most_common(n): by descending count, elements of equal count in
\* the order first encountered; the first n of them
MostCommon(items, n) ==
  Slice(SortedBy(items, {p \in Positions(items) :
                           \/ items[p[1]][2] > items[p[2]][2]
                           \/ items[p[1]][2] = items[p[2]][2] /\ p[1] < p[2]}), n)

\* sorted(pairs, key=lambda x: (-x[1], x[0]))
SortedByCountThenValue(items) ==
  SortedBy(items, {p \in Positions(items) :
                     \/ items[p[1]][2] > items[p[2]][2]
                     \/ items[p[1]][2] = items[p[2]][2] /\ items[p[1]][1] < items[p[2]][1]})

\* the try / except TypeError block that builds partial_unexpected_counts
PartialUnexpectedCounts(unexpected_list, limit) ==
  IF \E i \in 1..Len(unexpected_list) : unexpected_list[i] = Unhashable
  THEN <<"partial_exception_counts requires a hashable type">>
  ELSE LET kept == SortedByCountThenValue(MostCommon(CounterItems(unexpected_list), limit))
       IN [i \in 1..Len(kept) |-> [value |-> kept[i][1], count |-> kept[i][2]]]

\* unexpected_index_list[:limit] if unexpected_index_list is not None else None
PartialUnexpectedIndexList(unexpected_index_list, limit) ==
  IF IsNone(unexpected_index_list) THEN None
  ELSE Some(Slice(Val(unexpected_index_list), limit))

\* return_obj["result"] as built for BASIC
BasicResult(rf, element_count, nonnull_count, unexpected_count, unexpected_list) ==
  LET base == [element_count |-> element_count,
               unexpected_count |-> unexpected_count,
               unexpected_percent |-> UnexpectedPercent(element_count, unexpected_count),
               partial_unexpected_list |->
                 PartialUnexpectedList(Val(unexpected_list), rf.partial_unexpected_count)]
  IN IF IsNone(nonnull_count) THEN base
     ELSE [missing_count |-> MissingCount(element_count, nonnull_count),
           missing_percent |-> MissingPercent(element_count, nonnull_count),
           unexpected_percent_nonmissing |->
             UnexpectedPercentNonmissing(element_count, nonnull_count, unexpected_count)]
          @@ base

\* the update of return_obj["result"] made for SUMMARY and above
SummaryResult(rf, unexpected_list, unexpected_index_list) ==
  IF 0 < rf.partial_unexpected_count
  THEN [partial_unexpected_index_list |->
          PartialUnexpectedIndexList(unexpected_index_list, rf.partial_unexpected_count),
        partial_unexpected_counts |->
          PartialUnexpectedCounts(Val(unexpected_list), rf.partial_unexpected_count)]
  ELSE <<>>

\* mutant: COMPLETE replaces the truncated list by the full one
CompleteResult_Overwrite(unexpected_list, unexpected_index_list) ==
  [unexpected_list |-> unexpected_list,
   unexpected_index_list |-> unexpected_index_list,
   partial_unexpected_list |-> Val(unexpected_list)]

\* the update of return_obj["result"] made for COMPLETE
CompleteResult(unexpected_list, unexpected_index_list) ==
  [unexpected_list |-> unexpected_list,
   unexpected_index_list |-> unexpected_index_list]

\* an operand that is None reaches an arithmetic operator, a comparison or a
\* slice on the path of the tiers above BOOLEAN_ONLY
FormatTypeError(element_count, nonnull_count, unexpected_count, unexpected_list) ==
  \/ IsNone(element_count)
  \/ GuardElementCount(element_count) /\ IsNone(unexpected_count)
  \/ IsNone(unexpected_list)

\* mutant: an unknown result_format falls back to the COMPLETE payload
FormatDispatch_Default(fmt, boolean_only, basic, summary, complete) ==
  IF fmt = "BOOLEAN_ONLY" THEN Return(boolean_only)
  ELSE IF fmt = "BASIC" THEN Return(basic)
  ELSE IF fmt = "SUMMARY" THEN Return(summary)
  ELSE Return(complete)

\* the final dispatch on result_format["result_format"]
FormatDispatch(fmt, boolean_only, basic, summary, complete) ==
  IF fmt = "BOOLEAN_ONLY" THEN Return(boolean_only)
  ELSE IF fmt = "BASIC" THEN Return(basic)
  ELSE IF fmt = "SUMMARY" THEN Return(summary)
  ELSE IF fmt = "COMPLETE" THEN Return(complete)
  ELSE Raise("ValueError")

format_map_output(rf, success, element_count, nonnull_count, unexpected_count, unexpected_list, unexpected_index_list) ==
  LET return_obj == [success |-> success]
  IN IF rf.result_format = "BOOLEAN_ONLY"
     THEN FormatDispatch(rf.result_format, return_obj, return_obj, return_obj, return_obj)
     ELSE IF FormatTypeError(element_count, nonnull_count, unexpected_count, unexpected_list)
     THEN Raise("TypeError")
     ELSE IF FormatZeroDivision(element_count, nonnull_count)
     THEN Raise("ZeroDivisionError")
     ELSE LET basic == BasicResult(rf, element_count, nonnull_count, unexpected_count,
                                   unexpected_list)
              summary == SummaryResult(rf, unexpected_list, unexpected_index_list) @@ basic
              complete == CompleteResult(unexpected_list, unexpected_index_list) @@ summary
          IN FormatDispatch(rf.result_format,
                            return_obj,
                            [success |-> success, result |-> basic],
                            [success |-> success, result |-> summary],
                            [success |-> success, result |-> complete])

----------------------------------------------------------------------------
(* The formatter as a pure function: its arguments are drawn at Init *)

ParsedFormats(formats) ==
  [result_format : formats, partial_unexpected_count : 0..MaxPartial]

Counts == 0..MaxCount
OptCounts == {None} \cup {Some(n) : n \in Counts}

UnexpectedLists == SeqsUpTo(Values, MaxLen)

\* the index list of the same rows, when the engine provides one
IndexListOf(list) == [i \in 1..Len(list) |-> i - 1]

FormatArgs ==
  {a \in [result_format : ParsedFormats(KnownFormats \cup {UnknownFormat}),
          success : BOOLEAN,
          element_count : {Some(n) : n \in Counts},
          nonnull_count : OptCounts,
          unexpected_count : {Some(n) : n \in Counts},
          unexpected_list : {Some(l) : l \in UnexpectedLists},
          unexpected_index_list : {None} \cup {Some(IndexListOf(l)) : l \in UnexpectedLists}] :
     /\ ~IsNone(a.nonnull_count) => Val(a.nonnull_count) <= Val(a.element_count)
     /\ ~IsNone(a.unexpected_index_list) =>
          Len(Val(a.unexpected_index_list)) = Len(Val(a.unexpected_list))}

FormatOf(a, rf) ==
  format_map_output(rf, a.success, a.element_count, a.nonnull_count,
                    a.unexpected_count, a.unexpected_list, a.unexpected_index_list)

IdleFormat == f_in = None /\ f_out = NotCalled
IdleValidate == self_configuration = None /\ v_in = None /\ v_out = NotCalled
IdleEngine ==
  /\ loaded_batch_data = <<>> /\ active_batch_id = None
  /\ b_in = <<>> /\ b_out = NotCalled /\ agg_log = <<>>
  /\ d_in = None /\ d_out = NotCalled /\ d_filters = <<>> /\ d_arg = None
IdleBatch == s_arg = None /\ s_in = None /\ s_out = NotCalled /\ s_log = <<>>
IdleConfig == c_in = None /\ c_out = NotCalled
IdleRegistry == classes = <<>> /\ registry = <<>>
IdleDeps == g_in = None /\ g_out = NotCalled /\ g_conf = None /\ g_fmt = None
IdleConnector ==
  /\ database = <<>> /\ connector = None /\ data_assets = <<>>
  /\ r_out = NotCalled /\ i_in = None /\ i_out = NotCalled

InitFormat ==
  /\ f_in \in FormatArgs
  /\ f_out = NotCalled
  /\ IdleValidate /\ IdleEngine /\ IdleBatch /\ IdleConfig /\ IdleRegistry /\ IdleDeps /\ IdleConnector

CallFormatMapOutput ==
  /\ f_out = NotCalled
  /\ f_out' = FormatOf(f_in, f_in.result_format)
  /\ UNCHANGED <<f_in, validateVars, engineVars, domainVars, batchVars,
                 configVars, registryVars,
                 depsVars, connectorVars>>

NextFormat == CallFormatMapOutput

SpecFormat == InitFormat /\ [][NextFormat]_vars

----------------------------------------------------------------------------
(* Map expectations: _validate and metrics_validate *)

MostlyDen == 2     \* mostly ranges over the fractions n / MostlyDen in [0, 1]

\* the names of the metrics of a map expectation
map_metric == "column_values.not_match_like_pattern_list"
RowCount == "table.row_count"
NullCount == "column_values.nonnull.unexpected_count"
UnexpectedCount == "column_values.not_match_like_pattern_list.unexpected_count"
UnexpectedValues == "column_values.not_match_like_pattern_list.unexpected_values"
UnexpectedRows == "column_values.not_match_like_pattern_list.unexpected_rows"
UnexpectedIndexList == "column_values.not_match_like_pattern_list.unexpected_index_list"

\* default_kwarg_values of the two map expectation classes; mostly is the
\* fraction <<numerator, denominator>>
DefaultMostly == <<1, 1>>
DefaultResultFormat == "BASIC"

\* the limit parse_result_format associates with a result_format given as a
\* string
DefaultPartialUnexpectedCount == 20

parse_result_format(result_format) ==
  [result_format |-> result_format,
   partial_unexpected_count |-> DefaultPartialUnexpectedCount]

\* kwargs.get(key, default)
GetOr(d, key, default) == IF key \in DOMAIN d THEN d[key] ELSE default

\* Expectation.configuration: the instance's configuration, or an error
\* when the instance was constructed without one
configuration_property(self_conf) ==
  IF IsNone(self_conf)
  THEN Raise("InvalidExpectationConfigurationError")
  ELSE Return(Val(self_conf))

\* Expectation.get_success_kwargs: the success keys of the map expectations
\* are ("mostly",); "if not configuration: configuration = self.configuration"
get_success_kwargs(self_conf, configuration) ==
  LET conf == IF IsNone(configuration)
              THEN configuration_property(self_conf)
              ELSE Return(Val(configuration))
  IN IF Raised(conf) THEN conf
     ELSE Return([mostly |-> GetOr(conf.value.kwargs, "mostly", DefaultMostly)])

\* mutant: the kwargs of the configuration come before runtime_configuration
ValidateResultFormat_ConfigurationFirst(configuration, runtime_configuration) ==
  LET runtime == IF ~IsNone(runtime_configuration) /\ DOMAIN Val(runtime_configuration) # {}
                 THEN GetOr(Val(runtime_configuration), "result_format", DefaultResultFormat)
                 ELSE DefaultResultFormat
  IN GetOr(configuration.kwargs, "result_format", runtime)

\* the result_format _validate formats with: runtime_configuration, then the
\* kwargs of the configuration, then the class default
ValidateResultFormat(configuration, runtime_configuration) ==
  LET configured == GetOr(configuration.kwargs, "result_format", DefaultResultFormat)
  IN IF ~IsNone(runtime_configuration) /\ DOMAIN Val(runtime_configuration) # {}
     THEN GetOr(Val(runtime_configuration), "result_format", configured)
     ELSE configured

\* num / den >= mostly for den # 0, on exact fractions
RatioAtLeast(num, den, mostly) ==
  IF den > 0 THEN num * mostly[2] >= mostly[1] * den
  ELSE num * mostly[2] <= mostly[1] * den

\* mutant: the nulls stay in the denominator
ColumnMapSuccess_NullsInDenominator(total_count, null_count, unexpected_count, mostly) ==
  IF IsNone(total_count) \/ IsNone(null_count) THEN Return(TRUE)
  ELSE IF Val(total_count) # 0
  THEN IF IsNone(unexpected_count) THEN Raise("TypeError")
       ELSE Return(RatioAtLeast(Val(total_count) - Val(unexpected_count) - Val(null_count),
                                Val(total_count), mostly))
  ELSE Return(TRUE)

\* the verdict of ColumnMapExpectation._validate
ColumnMapSuccess(total_count, null_count, unexpected_count, mostly) ==
  IF IsNone(total_count) \/ IsNone(null_count) THEN Return(TRUE)
  ELSE IF Val(total_count) - Val(null_count) # 0
  THEN IF IsNone(unexpected_count) THEN Raise("TypeError")
       ELSE Return(RatioAtLeast(Val(total_count) - Val(unexpected_count) - Val(null_count),
                                Val(total_count) - Val(null_count), mostly))
  ELSE Return(TRUE)

\* the verdict of ColumnPairMapExpectation._validate
ColumnPairMapSuccess(total_count, null_count, unexpected_count, mostly) ==
  IF IsNone(total_count) \/ IsNone(null_count) THEN Return(TRUE)
  ELSE IF Val(total_count) - Val(null_count) # 0
  THEN IF IsNone(unexpected_count) THEN Raise("TypeError")
       ELSE Return(RatioAtLeast(Val(total_count) - Val(unexpected_count) - Val(null_count),
                                Val(total_count) - Val(null_count), mostly))
  ELSE Return(TRUE)

\* nonnull_count: row count minus null count, None on TypeError
NonnullCount(metrics) ==
  IF IsNone(Get(metrics, RowCount)) \/ IsNone(Get(metrics, NullCount)) THEN None
  ELSE Some(metrics[RowCount] - metrics[NullCount])

ColumnMapExpectation_validate(self_conf, configuration, metrics, runtime_configuration) ==
  LET result_format == ValidateResultFormat(configuration, runtime_configuration)
      success_kwargs == get_success_kwargs(self_conf, None)
  IN IF Raised(success_kwargs) THEN success_kwargs
     ELSE LET success == ColumnMapSuccess(Get(metrics, RowCount), Get(metrics, NullCount),
                                          Get(metrics, UnexpectedCount),
                                          success_kwargs.value.mostly)
          IN IF Raised(success) THEN success
             ELSE format_map_output(parse_result_format(result_format), success.value,
                                    Get(metrics, RowCount), NonnullCount(metrics),
                                    Get(metrics, UnexpectedCount),
                                    Get(metrics, UnexpectedValues),
                                    Get(metrics, UnexpectedIndexList))

ColumnPairMapExpectation_validate(self_conf, configuration, metrics, runtime_configuration) ==
  LET result_format == ValidateResultFormat(configuration, runtime_configuration)
      success_kwargs == get_success_kwargs(self_conf, None)
  IN IF Raised(success_kwargs) THEN success_kwargs
     ELSE LET success == ColumnPairMapSuccess(Get(metrics, RowCount), Get(metrics, NullCount),
                                              Get(metrics, UnexpectedCount),
                                              success_kwargs.value.mostly)
          IN IF Raised(success) THEN success
             ELSE format_map_output(parse_result_format(result_format), success.value,
                                    Get(metrics, RowCount), NonnullCount(metrics),
                                    Get(metrics, UnexpectedCount),
                                    Get(metrics, UnexpectedValues),
                                    Get(metrics, UnexpectedIndexList))

\* Expectation.get_runtime_kwargs()["result_format"]: the kwargs of a copy
\* of the configuration are updated with runtime_configuration, then read
\* with the class default
RuntimeResultFormat(configuration, runtime_configuration) ==
  LET kwargs == IF ~IsNone(runtime_configuration) /\ DOMAIN Val(runtime_configuration) # {}
                THEN Val(runtime_configuration) @@ configuration.kwargs
                ELSE configuration.kwargs
  IN parse_result_format(GetOr(kwargs, "result_format", DefaultResultFormat))

\* the unexpected_rows metric and, with a Pandas engine, the index list:
\* requested for COMPLETE by both classes
CompleteDependencies(execution_engine) ==
  {UnexpectedRows} \cup
    (IF execution_engine = "PandasExecutionEngine" THEN {UnexpectedIndexList} ELSE {})

\* mutant: the unexpected values are requested for BOOLEAN_ONLY too
ColumnMapDependencies_ValuesAlways(configuration, execution_engine, runtime_configuration) ==
  LET result_format_str == RuntimeResultFormat(configuration, runtime_configuration).result_format
      always == {NullCount, UnexpectedCount, RowCount, UnexpectedValues}
  IN IF result_format_str \in {"BOOLEAN_ONLY", "BASIC", "SUMMARY"} THEN always
     ELSE always \cup CompleteDependencies(execution_engine)

\* the metric names ColumnMapExpectation.get_validation_dependencies requests
ColumnMapDependencies(configuration, execution_engine, runtime_configuration) ==
  LET result_format_str == RuntimeResultFormat(configuration, runtime_configuration).result_format
      always == {NullCount, UnexpectedCount, RowCount}
  IN IF result_format_str = "BOOLEAN_ONLY" THEN always
     ELSE IF result_format_str \in {"BASIC", "SUMMARY"} THEN always \cup {UnexpectedValues}
     ELSE always \cup {UnexpectedValues} \cup CompleteDependencies(execution_engine)

\* the metric names ColumnPairMapExpectation.get_validation_dependencies
\* requests
ColumnPairMapDependencies(configuration, execution_engine, runtime_configuration) ==
  LET result_format_str == RuntimeResultFormat(configuration, runtime_configuration).result_format
      always == {NullCount, UnexpectedCount}
  IN IF result_format_str = "BOOLEAN_ONLY" THEN always
     ELSE IF result_format_str \in {"BASIC", "SUMMARY"}
     THEN always \cup {RowCount, UnexpectedValues}
     ELSE always \cup {RowCount, UnexpectedValues} \cup CompleteDependencies(execution_engine)

\* parse_result_format on a result_format that is a dict already: the
\* limit is added when it is missing
parse_result_format_dict(result_format) ==
  IF "partial_unexpected_count" \in DOMAIN result_format THEN result_format
  ELSE result_format @@ [partial_unexpected_count |-> DefaultPartialUnexpectedCount]

\* the kwargs of the deep copy of the configuration, after
\* "if runtime_configuration: configuration.kwargs.update(runtime_configuration)"
UpdatedKwargs(configuration, runtime_configuration) ==
  IF ~IsNone(runtime_configuration) /\ DOMAIN Val(runtime_configuration) # {}
  THEN Val(runtime_configuration) @@ configuration.kwargs
  ELSE configuration.kwargs

\* mutant: the update is made on the caller's configuration
CallerConfiguration_Shared(configuration, updated) == [configuration EXCEPT !.kwargs = updated]

\* the caller's configuration after get_runtime_kwargs: the update was made
\* on a deep copy
CallerConfiguration(configuration, updated) == configuration

\* Expectation.get_domain_kwargs: the domain keys of the map expectations,
\* None for a key without value and without default
get_domain_kwargs(kwargs) ==
  [key \in {"batch_id", "table", "column", "row_condition", "condition_parser"} |->
     Get(kwargs, key)]

\* Expectation.get_runtime_kwargs: its outcome, and the configuration object
\* it was given (or the instance's) after the call
get_runtime_kwargs(self_conf, configuration, runtime_configuration) ==
  LET conf == IF IsNone(configuration)
              THEN configuration_property(self_conf)
              ELSE Return(Val(configuration))
  IN IF Raised(conf) THEN [out |-> conf, configuration |-> None]
     ELSE LET updated == UpdatedKwargs(conf.value, runtime_configuration)
              success_kwargs == get_success_kwargs(self_conf, Some([kwargs |-> updated]))
              runtime_kwargs ==
                [include_config |-> GetOr(updated, "include_config", TRUE),
                 catch_exceptions |-> GetOr(updated, "catch_exceptions", TRUE),
                 result_format |-> RuntimeResultFormat(conf.value, runtime_configuration)]
          IN [out |-> Return(success_kwargs.value @@ get_domain_kwargs(updated)
                               @@ runtime_kwargs),
              configuration |-> Some(CallerConfiguration(conf.value, updated))]

\* Expectation.get_validation_dependencies: the parsed result_format and no
\* metric
get_validation_dependencies(self_conf, configuration, runtime_configuration) ==
  LET r == get_runtime_kwargs(self_conf, configuration, runtime_configuration)
  IN IF Raised(r.out) THEN r
     ELSE [out |-> Return([result_format |-> parse_result_format_dict(r.out.value.result_format),
                           metrics |-> {}]),
           configuration |-> r.configuration]

\* ColumnMapExpectation.get_validation_dependencies: the dependencies of
\* the base class, with the names of the metrics requested
ColumnMapExpectation_get_validation_dependencies(self_conf, configuration, execution_engine, runtime_configuration) ==
  LET dependencies == get_validation_dependencies(self_conf, configuration, runtime_configuration)
      conf == IF IsNone(configuration) THEN Val(self_conf) ELSE Val(configuration)
  IN IF Raised(dependencies.out) THEN dependencies
     ELSE [out |-> Return([result_format |-> dependencies.out.value.result_format,
                           metrics |-> dependencies.out.value.metrics \cup
                             ColumnMapDependencies(conf, execution_engine,
                                                   runtime_configuration)]),
           configuration |-> dependencies.configuration]

\* _build_evr: the raw response becomes the validation result of the
\* configuration
build_evr(raw_response, configuration) ==
  [expectation_config |-> configuration] @@ raw_response

\* Expectation.metrics_validate for the class cls
metrics_validate(self_conf, cls, metrics, configuration, runtime_configuration, execution_engine) ==
  LET conf == IF IsNone(configuration)
              THEN configuration_property(self_conf)
              ELSE Return(Val(configuration))
  IN IF Raised(conf) THEN conf
     ELSE LET requested_metrics ==
                IF cls = "ColumnMapExpectation"
                THEN ColumnMapDependencies(conf.value, execution_engine, runtime_configuration)
                ELSE ColumnPairMapDependencies(conf.value, execution_engine, runtime_configuration)
          IN IF ~(requested_metrics \subseteq DOMAIN metrics) THEN Raise("KeyError")
             ELSE LET provided_metrics == [name \in requested_metrics |-> metrics[name]]
                      raw == IF cls = "ColumnMapExpectation"
                             THEN ColumnMapExpectation_validate(self_conf, conf.value,
                                    provided_metrics, runtime_configuration)
                             ELSE ColumnPairMapExpectation_validate(self_conf, conf.value,
                                    provided_metrics, runtime_configuration)
                  IN IF Raised(raw) THEN raw
                     ELSE Return(build_evr(raw.value, conf.value))

----------------------------------------------------------------------------
(* Validation of one map expectation: the instance is constructed with or  *)
(* without a configuration, then _validate or metrics_validate is called   *)
(* once with metrics a backend can have resolved.                          *)

MostlyValues == {<<n, MostlyDen>> : n \in 0..MostlyDen}

KwargsOf(mostly, result_format) ==
  (IF IsNone(mostly) THEN <<>> ELSE [mostly |-> Val(mostly)])
    @@ (IF IsNone(result_format) THEN <<>> ELSE [result_format |-> Val(result_format)])

Configurations ==
  {[kwargs |-> KwargsOf(m, f)] :
     m \in {None} \cup {Some(v) : v \in MostlyValues},
     f \in {None} \cup {Some(t) : t \in KnownFormats}}

\* the configurations an instance is constructed with: result_format is
\* left to the configuration and the runtime_configuration of the call
InstanceConfigurations ==
  {None} \cup {Some(c) : c \in {x \in Configurations : "result_format" \notin DOMAIN x.kwargs}}

RuntimeConfigurations ==
  {None} \cup {Some([result_format |-> t]) : t \in KnownFormats}

Engines == {"PandasExecutionEngine", "SparkDFExecutionEngine"}

\* null rows are rows, and unexpected rows are non-null rows
ConsistentCounts(t, n, u) ==
  /\ (~IsNone(t) /\ ~IsNone(n)) => Val(n) <= Val(t)
  /\ (~IsNone(t) /\ ~IsNone(u)) => Val(u) <= Val(t)
  /\ (~IsNone(t) /\ ~IsNone(n) /\ ~IsNone(u)) => Val(u) <= Val(t) - Val(n)

\* the unexpected values of u unexpected rows
ValuesOfCount(u) == IF IsNone(u) THEN <<>> ELSE [i \in 1..Val(u) |-> 1]

MetricsOf(t, n, u, values, extras) ==
  (IF IsNone(t) THEN <<>> ELSE RowCount :> Val(t))
    @@ (IF IsNone(n) THEN <<>> ELSE NullCount :> Val(n))
    @@ (IF IsNone(u) THEN <<>> ELSE UnexpectedCount :> Val(u))
    @@ (IF values THEN UnexpectedValues :> ValuesOfCount(u) ELSE <<>>)
    @@ (IF extras \in {"rows", "rows_and_index"}
        THEN UnexpectedRows :> ValuesOfCount(u) ELSE <<>>)
    @@ (IF extras = "rows_and_index"
        THEN UnexpectedIndexList :> IndexListOf(ValuesOfCount(u)) ELSE <<>>)

ResolvedMetrics ==
  {MetricsOf(c[1], c[2], c[3], values, extras) :
     c \in {x \in OptCounts \X OptCounts \X OptCounts : ConsistentCounts(x[1], x[2], x[3])},
     values \in BOOLEAN,
     extras \in {"none", "rows", "rows_and_index"}}

InitValidate ==
  /\ self_configuration \in InstanceConfigurations
  /\ v_in = None /\ v_out = NotCalled
  /\ IdleFormat /\ IdleEngine /\ IdleBatch /\ IdleConfig /\ IdleRegistry /\ IdleDeps /\ IdleConnector

\* expectation._validate(configuration, metrics, runtime_configuration)
CallValidate(cls) ==
  /\ v_out = NotCalled
  /\ \E configuration \in Configurations, metrics \in ResolvedMetrics,
        runtime_configuration \in RuntimeConfigurations :
       /\ v_in' = Some([cls |-> cls, method |-> "_validate",
                        configuration |-> Some(configuration), metrics |-> metrics,
                        runtime_configuration |-> runtime_configuration,
                        execution_engine |-> "SparkDFExecutionEngine"])
       /\ v_out' = IF cls = "ColumnMapExpectation"
                   THEN ColumnMapExpectation_validate(self_configuration, configuration,
                                                      metrics, runtime_configuration)
                   ELSE ColumnPairMapExpectation_validate(self_configuration, configuration,
                                                          metrics, runtime_configuration)
  /\ UNCHANGED <<formatVars, self_configuration, engineVars, domainVars,
                 batchVars, configVars, registryVars,
                 depsVars, connectorVars>>

\* expectation.metrics_validate(metrics, configuration, runtime_configuration,
\* execution_engine)
CallMetricsValidate(cls) ==
  /\ v_out = NotCalled
  /\ \E configuration \in {None} \cup {Some(c) : c \in Configurations},
        metrics \in ResolvedMetrics,
        runtime_configuration \in RuntimeConfigurations,
        execution_engine \in Engines :
       /\ v_in' = Some([cls |-> cls, method |-> "metrics_validate",
                        configuration |-> configuration, metrics |-> metrics,
                        runtime_configuration |-> runtime_configuration,
                        execution_engine |-> execution_engine])
       /\ v_out' = metrics_validate(self_configuration, cls, metrics, configuration,
                                    runtime_configuration, execution_engine)
  /\ UNCHANGED <<formatVars, self_configuration, engineVars, domainVars,
                 batchVars, configVars, registryVars,
                 depsVars, connectorVars>>

ColumnMapValidate == CallValidate("ColumnMapExpectation")
ColumnPairMapValidate == CallValidate("ColumnPairMapExpectation")
ColumnMapMetricsValidate == CallMetricsValidate("ColumnMapExpectation")
ColumnPairMapMetricsValidate == CallMetricsValidate("ColumnPairMapExpectation")

NextValidate ==
  \/ ColumnMapValidate
  \/ ColumnPairMapValidate
  \/ ColumnMapMetricsValidate
  \/ ColumnPairMapMetricsValidate

SpecValidate == InitValidate /\ [][NextValidate]_vars

----------------------------------------------------------------------------
(* SparkDFExecutionEngine: get_compute_domain and resolve_metric_bundle *)

MaxBundle == 3     \* longest metric_fn_bundle
MaxCalls == 2      \* calls of resolve_metric_bundle in one validation run

BatchIds == {"b1", "b2"}

\* what df.agg(...).collect() of a data handle answers: the one row of a
\* Spark DataFrame, or the malformed answers resolve_metric_bundle asserts
\* against
CollectBehaviours == {"one_row", "no_rows", "two_rows", "short_row", "long_row"}

\* a data handle: its rows over the columns x and y, and how it answers
\* agg(...).collect()
DataFrame(rows, collect) == [rows |-> rows, collect |-> collect]

SampleRows == <<[x |-> 1, y |-> 2], [x |-> 3, y |-> 0]>>

Frames ==
  {DataFrame(<<>>, "one_row")} \cup {DataFrame(SampleRows, c) : c \in CollectBehaviours}

\* ExecutionEngine.active_batch_data: the data of the active batch, None
\* when no batch is active
active_batch_data(loaded, active) ==
  IF IsNone(active) THEN None ELSE Some(loaded[Val(active)])

\* the rows a row_condition keeps (data.filter); both parsers read the
\* condition "x > 1" the same way
FilterRows(data, row_condition) ==
  LET RECURSIVE Keep(_)
      Keep(k) == IF k = 0 THEN <<>>
                 ELSE IF data.rows[k].x > 1 THEN Append(Keep(k - 1), data.rows[k])
                 ELSE Keep(k - 1)
  IN DataFrame(Keep(Len(data.rows)), data.collect)

\* the dict without the key "column"
WithoutColumn(kwargs) == [k \in DOMAIN kwargs \ {"column"} |-> kwargs[k]]

\* mutant: the accessor key stays in the compute domain kwargs
ComputeDomainKwargs_KeepColumn(domain_kwargs) == domain_kwargs

\* compute_domain_kwargs: a deep copy of domain_kwargs from which "column"
\* is popped
ComputeDomainKwargs(domain_kwargs) == WithoutColumn(domain_kwargs)

AccessorDomainKwargs(domain_kwargs) ==
  IF "column" \in DOMAIN domain_kwargs THEN [column |-> domain_kwargs.column] ELSE <<>>

\* the caller's domain_kwargs after the call: the keys are read with get,
\* and "column" is popped from the deep copy
CallerDomainKwargs(domain_kwargs) == domain_kwargs

\* mutant: an unknown batch_id falls back to the active batch
ComputeDomainBatch_Fallback(loaded, active, domain_kwargs) ==
  IF "batch_id" \in DOMAIN domain_kwargs /\ domain_kwargs.batch_id \in DOMAIN loaded
  THEN Return(loaded[domain_kwargs.batch_id])
  ELSE IF ~IsNone(active_batch_data(loaded, active))
  THEN Return(Val(active_batch_data(loaded, active)))
  ELSE Raise("ValidationError")

\* the batch the domain kwargs address
ComputeDomainBatch(loaded, active, domain_kwargs) ==
  IF "batch_id" \notin DOMAIN domain_kwargs
  THEN IF ~IsNone(active_batch_data(loaded, active))
       THEN Return(Val(active_batch_data(loaded, active)))
       ELSE Raise("ValidationError")
  ELSE IF domain_kwargs.batch_id \in DOMAIN loaded
  THEN Return(loaded[domain_kwargs.batch_id])
  ELSE Raise("ValidationError")

\* domain_kwargs.get(key, None) is truthy; "" is the empty string
Truthy(domain_kwargs, key) == GetOr(domain_kwargs, key, "") # ""

\* mutant: any parser tag is taken for a Spark condition
ConditionParserRecognized_Any(condition_parser) == TRUE

\* the branches of the condition_parser test
ConditionParserRecognized(condition_parser) ==
  condition_parser \in {Some("spark"), Some("great_expectations__experimental__")}

\* the row filter: the data after it, and the data.filter calls made
RowFilter(data, domain_kwargs) ==
  IF ~Truthy(domain_kwargs, "row_condition")
  THEN [out |-> Return(data), filters |-> <<>>]
  ELSE IF ConditionParserRecognized(Get(domain_kwargs, "condition_parser"))
  THEN [out |-> Return(FilterRows(data, domain_kwargs.row_condition)),
        filters |-> <<domain_kwargs.row_condition>>]
  ELSE [out |-> Raise("GreatExpectationsError"), filters |-> <<>>]

\* mutant: the row filter runs before the table test
ComputeDomainSteps_FilterFirst(loaded, active, domain_kwargs) ==
  LET batch == ComputeDomainBatch(loaded, active, domain_kwargs)
      filtered == RowFilter(batch.value, domain_kwargs)
  IN IF Raised(batch) THEN [out |-> batch, filters |-> <<>>]
     ELSE IF Raised(filtered.out) THEN filtered
     ELSE IF Truthy(domain_kwargs, "table")
     THEN [out |-> Raise("ValueError"), filters |-> filtered.filters]
     ELSE [out |-> Return([data |-> filtered.out.value,
                           compute_domain_kwargs |-> ComputeDomainKwargs(domain_kwargs),
                           accessor_domain_kwargs |-> AccessorDomainKwargs(domain_kwargs)]),
           filters |-> filtered.filters]

\* get_compute_domain step by step: the batch, the table test, the row
\* filter, the split of the kwargs; with the data.filter calls made
ComputeDomainSteps(loaded, active, domain_kwargs) ==
  LET batch == ComputeDomainBatch(loaded, active, domain_kwargs)
      filtered == RowFilter(batch.value, domain_kwargs)
  IN IF Raised(batch) THEN [out |-> batch, filters |-> <<>>]
     ELSE IF Truthy(domain_kwargs, "table")
     THEN [out |-> Raise("ValueError"), filters |-> <<>>]
     ELSE IF Raised(filtered.out) THEN filtered
     ELSE [out |-> Return([data |-> filtered.out.value,
                           compute_domain_kwargs |-> ComputeDomainKwargs(domain_kwargs),
                           accessor_domain_kwargs |-> AccessorDomainKwargs(domain_kwargs)]),
           filters |-> filtered.filters]

get_compute_domain(loaded, active, domain_kwargs) ==
  ComputeDomainSteps(loaded, active, domain_kwargs).out

\* the value of one aggregate column over a DataFrame: a row count, or the
\* maximum of a column (null over no rows)
EvalAggregate(column_aggregate, data) ==
  IF column_aggregate.fn = "count" THEN Some(Len(data.rows))
  ELSE IF data.rows = <<>> THEN None
  ELSE Some(CHOOSE v \in {data.rows[i][column_aggregate.column] : i \in 1..Len(data.rows)} :
              \A i \in 1..Len(data.rows) : data.rows[i][column_aggregate.column] <= v)

\* df.agg(*aggregate_cols).collect(): for a Spark DataFrame one row with
\* one value per aggregate
AggCollect(data, aggregate_cols) ==
  LET row == [i \in 1..Len(aggregate_cols) |-> EvalAggregate(aggregate_cols[i], data)]
  IN CASE data.collect = "one_row" -> <<row>>
       [] data.collect = "no_rows" -> <<>>
       [] data.collect = "two_rows" -> <<row, row>>
       [] data.collect = "short_row" -> <<SubSeq(row, 1, Len(row) - 1)>>
       [] data.collect = "long_row" -> <<Append(row, None)>>

\* mutant: one group per bundle entry
SameDomain_Never(a, b) == FALSE

\* two domain kwargs have the same id (IDDict.to_id)
SameDomain(a, b) == a = b

\* the dict aggregates, as the sequence of its values in insertion order:
\* one group per distinct domain id, holding the aggregates and the metric
\* ids of the domain in the order of the bundle
RECURSIVE BuildAggregates(_)
BuildAggregates(bundle) ==
  IF bundle = <<>> THEN <<>>
  ELSE LET aggregates == BuildAggregates(SubSeq(bundle, 1, Len(bundle) - 1))
           entry == bundle[Len(bundle)]
           known == {g \in 1..Len(aggregates) :
                       SameDomain(aggregates[g].domain_kwargs, entry.domain_kwargs)}
       IN IF known = {}
          THEN Append(aggregates, [column_aggregates |-> <<entry.column_aggregate>>,
                                   ids |-> <<entry.id>>,
                                   domain_kwargs |-> entry.domain_kwargs])
          ELSE [g \in 1..Len(aggregates) |->
                  IF g \in known
                  THEN [aggregates[g] EXCEPT
                          !.column_aggregates = Append(@, entry.column_aggregate),
                          !.ids = Append(@, entry.id)]
                  ELSE aggregates[g]]

\* mutant: the compute domain returned is not compared
SameComputeDomain_Unchecked(compute_domain_kwargs, domain_kwargs) == TRUE

\* assert compute_domain_kwargs == aggregate["domain_kwargs"]
SameComputeDomain(compute_domain_kwargs, domain_kwargs) ==
  compute_domain_kwargs = domain_kwargs

\* for idx, id in enumerate(ids): resolved_metrics[id] = row[idx]
AssignRow(resolved_metrics, ids, row) ==
  [id \in DOMAIN resolved_metrics \cup {ids[i] : i \in 1..Len(ids)} |->
     IF \E i \in 1..Len(ids) : ids[i] = id
     THEN row[CHOOSE i \in 1..Len(ids) :
                 ids[i] = id /\ \A j \in 1..Len(ids) : ids[j] = id => j <= i]
     ELSE resolved_metrics[id]]

\* the loop over aggregates.values() from group k on; log is the sequence of
\* the backend queries executed so far
RECURSIVE ResolveAggregates(_, _, _, _, _, _)
ResolveAggregates(loaded, active, aggregates, k, resolved_metrics, log) ==
  IF k > Len(aggregates) THEN [out |-> Return(resolved_metrics), log |-> log]
  ELSE LET aggregate == aggregates[k]
           domain == get_compute_domain(loaded, active, aggregate.domain_kwargs)
       IN IF Raised(domain) THEN [out |-> domain, log |-> log]
          ELSE IF ~SameComputeDomain(domain.value.compute_domain_kwargs,
                                     aggregate.domain_kwargs)
          THEN [out |-> Raise("AssertionError"), log |-> log]
          ELSE LET res == AggCollect(domain.value.data, aggregate.column_aggregates)
                   executed == Append(log, [domain_kwargs |-> aggregate.domain_kwargs,
                                            ids |-> aggregate.ids,
                                            column_aggregates |-> aggregate.column_aggregates,
                                            res |-> res])
               IN IF Len(res) # 1 \/ Len(aggregate.ids) # Len(res[1])
                  THEN [out |-> Raise("AssertionError"), log |-> executed]
                  ELSE ResolveAggregates(loaded, active, aggregates, k + 1,
                                         AssignRow(resolved_metrics, aggregate.ids, res[1]),
                                         executed)

\* mutant: the metric_fn_type of the providers is not looked at
AllAggregate_Unchecked(metric_fn_bundle) == TRUE

\* assert metric_provider.metric_fn_type == "aggregate_fn", entry by entry
AllAggregate(metric_fn_bundle) ==
  \A i \in 1..Len(metric_fn_bundle) : metric_fn_bundle[i].metric_fn_type = "aggregate_fn"

resolve_metric_bundle(loaded, active, metric_fn_bundle) ==
  IF ~AllAggregate(metric_fn_bundle)
  THEN [out |-> Raise("AssertionError"), log |-> <<>>]
  ELSE ResolveAggregates(loaded, active, BuildAggregates(metric_fn_bundle), 1, <<>>, <<>>)

----------------------------------------------------------------------------
(* The engine: batches are loaded, and bundles of metrics are resolved *)

\* MetricConfiguration.id: the metric name with its domain kwargs
MetricId(metric_name, metric_domain_kwargs) == <<metric_name, metric_domain_kwargs>>

\* a bundle entry (metric_to_resolve, metric_provider, metric_provider_kwargs)
\* as the id of the metric, the metric_fn_type of the provider, and the
\* column aggregate and the compute domain kwargs the provider returns
BundleEntry(metric_name, metric_domain_kwargs, metric_fn_type, fn, domain_kwargs) ==
  [id |-> MetricId(metric_name, metric_domain_kwargs),
   metric_fn_type |-> metric_fn_type,
   column_aggregate |-> [fn |-> fn, column |-> GetOr(metric_domain_kwargs, "column", "*")],
   domain_kwargs |-> domain_kwargs]

\* an aggregate metric whose provider returns the compute domain of its
\* metric domain
AggregateEntry(metric_name, fn, metric_domain_kwargs) ==
  BundleEntry(metric_name, metric_domain_kwargs, "aggregate_fn", fn,
              WithoutColumn(metric_domain_kwargs))

FilteredDomain ==
  [batch_id |-> "b1", row_condition |-> "x > 1", condition_parser |-> "spark"]

BundleEntries ==
  {AggregateEntry("table.row_count", "count", [batch_id |-> "b1"]),
   AggregateEntry("column.max", "max", [batch_id |-> "b1", column |-> "x"]),
   AggregateEntry("column.max", "max", [batch_id |-> "b1", column |-> "y"]),
   AggregateEntry("table.row_count", "count", FilteredDomain),
   AggregateEntry("table.row_count", "count", <<>>),
   AggregateEntry("column.max", "max", [batch_id |-> "b2", column |-> "x"]),
   BundleEntry("column_values.nonnull", [batch_id |-> "b1", column |-> "x"],
               "map_fn", "count", [batch_id |-> "b1"]),
   BundleEntry("column.max", [batch_id |-> "b1", column |-> "x"],
               "aggregate_fn", "max", [batch_id |-> "b1", column |-> "x"])}

Bundles == SeqsUpTo(BundleEntries, MaxBundle) \ {<<>>}

InitEngine ==
  /\ IdleEngine
  /\ IdleFormat /\ IdleValidate /\ IdleBatch /\ IdleConfig /\ IdleRegistry /\ IdleDeps /\ IdleConnector

\* ExecutionEngine.load_batch_data(batch_id, batch_data): the batch is
\* stored; it is the active batch while it is the only batch loaded.
\* Batches are loaded before the validation run resolves its metrics.
LoadBatchData ==
  /\ agg_log = <<>> /\ d_out = NotCalled
  /\ \E batch_id \in BatchIds, data \in Frames :
       /\ loaded_batch_data' =
            [b \in DOMAIN loaded_batch_data \cup {batch_id} |->
               IF b = batch_id THEN data ELSE loaded_batch_data[b]]
       /\ active_batch_id' =
            IF DOMAIN loaded_batch_data \cup {batch_id} = {batch_id}
            THEN Some(batch_id) ELSE None
  /\ UNCHANGED <<formatVars, validateVars, b_in, b_out, agg_log, domainVars,
                 batchVars, configVars, registryVars,
                 depsVars, connectorVars>>

\* engine.resolve_metric_bundle(metric_fn_bundle); agg_log collects, call
\* by call, the backend queries of the validation run
CallResolveMetricBundle(metric_fn_bundle) ==
  LET r == resolve_metric_bundle(loaded_batch_data, active_batch_id, metric_fn_bundle)
  IN /\ b_in' = metric_fn_bundle
     /\ b_out' = r.out
     /\ agg_log' = Append(agg_log, r.log)
     /\ UNCHANGED <<formatVars, validateVars, loaded_batch_data, active_batch_id,
                    domainVars, batchVars, configVars, registryVars,
                 depsVars, connectorVars>>

\* the first call of the run
ResolveMetricBundle ==
  /\ agg_log = <<>>
  /\ \E metric_fn_bundle \in Bundles : CallResolveMetricBundle(metric_fn_bundle)

\* the same requests reach resolve_metric_bundle again in the same run
ResolveMetricBundleAgain ==
  /\ 0 < Len(agg_log) /\ Len(agg_log) < MaxCalls
  /\ CallResolveMetricBundle(b_in)

NextEngine == LoadBatchData \/ ResolveMetricBundle \/ ResolveMetricBundleAgain

SpecEngine == InitEngine /\ [][NextEngine]_vars

----------------------------------------------------------------------------
(* The engine: batches are loaded, and compute domains are resolved *)

\* a dict of the keys that are given
Given(key, value) == IF IsNone(value) THEN <<>> ELSE key :> Val(value)

\* the domain kwargs get_compute_domain is called with
DomainKwargs ==
  {Given("batch_id", batch_id) @@ Given("table", table)
     @@ Given("row_condition", row_condition)
     @@ Given("condition_parser", condition_parser) @@ Given("column", column) :
     batch_id \in {None} \cup {Some(b) : b \in BatchIds},
     table \in {None, Some("t")},
     row_condition \in {None, Some(""), Some("x > 1")},
     condition_parser \in {None, Some("spark"),
                           Some("great_expectations__experimental__"), Some("pandas")},
     column \in {None, Some("x")}}

\* engine.get_compute_domain(domain_kwargs)
GetComputeDomain ==
  /\ d_out = NotCalled
  /\ \E domain_kwargs \in DomainKwargs :
       LET r == ComputeDomainSteps(loaded_batch_data, active_batch_id, domain_kwargs)
       IN /\ d_in' = Some(domain_kwargs)
          /\ d_out' = r.out
          /\ d_filters' = r.filters
          /\ d_arg' = Some(CallerDomainKwargs(domain_kwargs))
  /\ UNCHANGED <<formatVars, validateVars, engineVars, batchVars,
                 configVars, registryVars,
                 depsVars, connectorVars>>

NextDomain == LoadBatchData \/ GetComputeDomain

SpecDomain == InitEngine /\ [][NextDomain]_vars

----------------------------------------------------------------------------
(* SparkDFExecutionEngine: splitters, samplers, batches *)

MaxRows == 2       \* most rows of a DataFrame that is split or sampled

\* df.withColumn(name, values): the column is added, or replaced
WithColumn(rows, name, values) ==
  [k \in 1..Len(rows) |->
     [c \in DOMAIN rows[k] \cup {name} |-> IF c = name THEN values[k] ELSE rows[k][c]]]

\* mutant: the column stays
DropColumn_Keep(rows, name) == rows

\* df.drop(name)
DropColumn(rows, name) ==
  [k \in 1..Len(rows) |-> [c \in DOMAIN rows[k] \ {name} |-> rows[k][c]]]

\* df.filter(condition): the rows at the positions keep, in order
SelectRows(rows, keep) ==
  LET RECURSIVE Sel(_)
      Sel(k) == IF k = 0 THEN <<>>
                ELSE IF k \in keep THEN Append(Sel(k - 1), rows[k])
                ELSE Sel(k - 1)
  IN Sel(Len(rows))

\* Spark's a % m on non-negative integers: null when m is 0
SparkMod(a, m) == IF m = 0 THEN None ELSE Some(a % m)

\* Spark's (a / d).cast(IntegerType()) on non-negative integers: null when
\* d is 0
SparkDiv(a, d) == IF d = 0 THEN None ELSE Some(a \div d)

\* the rows whose value in column_name equals value
RowsWhere(rows, column_name, value) ==
  SelectRows(rows, {k \in 1..Len(rows) : rows[k][column_name] = value})

split_on_whole_table(df) == df

split_on_column_value(df, column_name, partition_definition) ==
  DataFrame(RowsWhere(df.rows, column_name, partition_definition[column_name]),
            df.collect)

split_on_divided_integer(df, column_name, divisor, partition_definition) ==
  LET full_res == WithColumn(df.rows, "div_temp",
                             [k \in 1..Len(df.rows) |->
                                SparkDiv(df.rows[k][column_name], divisor)])
      res == RowsWhere(full_res, "div_temp", Some(partition_definition[column_name]))
  IN DataFrame(DropColumn(res, "div_temp"), df.collect)

split_on_mod_integer(df, column_name, mod, partition_definition) ==
  LET full_res == WithColumn(df.rows, "mod_temp",
                             [k \in 1..Len(df.rows) |->
                                SparkMod(df.rows[k][column_name], mod)])
      res == RowsWhere(full_res, "mod_temp", Some(partition_definition[column_name]))
  IN DataFrame(DropColumn(res, "mod_temp"), df.collect)

split_on_multi_column_values(df, partition_definition) ==
  DataFrame(SelectRows(df.rows,
                       {k \in 1..Len(df.rows) :
                          \A c \in DOMAIN partition_definition :
                             df.rows[k][c] = partition_definition[c]}),
            df.collect)

sample_using_mod(df, column_name, mod, value) ==
  LET full_res == WithColumn(df.rows, "mod_temp",
                             [k \in 1..Len(df.rows) |->
                                SparkMod(df.rows[k][column_name], mod)])
      res == RowsWhere(full_res, "mod_temp", Some(value))
  IN DataFrame(DropColumn(res, "mod_temp"), df.collect)

sample_using_a_list(df, column_name, value_list) ==
  DataFrame(SelectRows(df.rows,
                       {k \in 1..Len(df.rows) :
                          \E i \in 1..Len(value_list) :
                             df.rows[k][column_name] = value_list[i]}),
            df.collect)

\* the splitter and sampler functions the engine defines
SplitterNames ==
  {"_split_on_whole_table", "_split_on_column_value", "_split_on_converted_datetime",
   "_split_on_divided_integer", "_split_on_mod_integer",
   "_split_on_multi_column_values", "_split_on_hashed_column"}

SamplerNames ==
  {"_sample_using_random", "_sample_using_mod", "_sample_using_a_list",
   "_sample_using_md5"}

\* what getattr(self, name) finds on the engine besides them: its other
\* methods and its instance attributes (here the flag _persist)
EngineAttributes == SplitterNames \cup SamplerNames \cup {"_persist"}

\* the named parameters of a function, none of which has a default
RequiredParams(name) ==
  CASE name = "_split_on_whole_table" -> {}
    [] name = "_split_on_column_value" -> {"column_name", "partition_definition"}
    [] name = "_split_on_divided_integer" ->
         {"column_name", "divisor", "partition_definition"}
    [] name = "_split_on_mod_integer" -> {"column_name", "mod", "partition_definition"}
    [] name = "_split_on_multi_column_values" -> {"partition_definition"}
    [] name = "_sample_using_mod" -> {"column_name", "mod", "value"}
    [] name = "_sample_using_a_list" -> {"column_name", "value_list"}

\* partition_definition[column_name] raises KeyError
KeyMissing(kwargs) == kwargs.column_name \notin DOMAIN kwargs.partition_definition

\* fn(batch_data, **kwargs) for a splitter or sampler fn; batch_data may be
\* None
CallFunction(name, data, kwargs) ==
  IF DOMAIN kwargs # RequiredParams(name) THEN Raise("TypeError")
  ELSE CASE name = "_split_on_whole_table" ->
              Return(IF IsNone(data) THEN None ELSE Some(split_on_whole_table(Val(data))))
         [] name = "_split_on_column_value" ->
              IF IsNone(data) THEN Raise("AttributeError")
              ELSE IF KeyMissing(kwargs) THEN Raise("KeyError")
              ELSE Return(Some(split_on_column_value(Val(data), kwargs.column_name,
                                                     kwargs.partition_definition)))
         [] name = "_split_on_divided_integer" ->
              IF KeyMissing(kwargs) THEN Raise("KeyError")
              ELSE IF IsNone(data) THEN Raise("AttributeError")
              ELSE Return(Some(split_on_divided_integer(Val(data), kwargs.column_name,
                                                        kwargs.divisor,
                                                        kwargs.partition_definition)))
         [] name = "_split_on_mod_integer" ->
              IF KeyMissing(kwargs) THEN Raise("KeyError")
              ELSE IF IsNone(data) THEN Raise("AttributeError")
              ELSE Return(Some(split_on_mod_integer(Val(data), kwargs.column_name,
                                                    kwargs.mod,
                                                    kwargs.partition_definition)))
         [] name = "_split_on_multi_column_values" ->
              IF DOMAIN kwargs.partition_definition = {} THEN Return(data)
              ELSE IF IsNone(data) THEN Raise("AttributeError")
              ELSE Return(Some(split_on_multi_column_values(Val(data),
                                                            kwargs.partition_definition)))
         [] name = "_sample_using_mod" ->
              IF IsNone(data) THEN Raise("AttributeError")
              ELSE Return(Some(sample_using_mod(Val(data), kwargs.column_name,
                                                kwargs.mod, kwargs.value)))
         [] name = "_sample_using_a_list" ->
              IF IsNone(data) THEN Raise("AttributeError")
              ELSE Return(Some(sample_using_a_list(Val(data), kwargs.column_name,
                                                   kwargs.value_list)))

\* getattr(self, name)(batch_data, **kwargs): a missing attribute raises
\* AttributeError, an attribute that is no function raises TypeError
CallAttribute(name, data, kwargs) ==
  IF name \notin EngineAttributes THEN Raise("AttributeError")
  ELSE IF name \notin SplitterNames \cup SamplerNames THEN Raise("TypeError")
  ELSE CallFunction(name, data, kwargs)

\* hash_spark_dataframe: a checksum over the rows in order
Fingerprint(df) ==
  LET RECURSIVE H(_)
      H(k) == IF k = 0 THEN 7
              ELSE (H(k - 1) * 31 + df.rows[k].x * 5 + df.rows[k].y + 1) % 1009
  IN H(Len(df.rows))

\* the BatchMarkers: the load time, and the fingerprint of the data returned
BatchMarkers(data) ==
  IF IsNone(data) THEN [ge_load_time |-> "now"]
  ELSE [ge_load_time |-> "now", sparkdf_data_fingerprint |-> Fingerprint(Val(data))]

\* mutant: the sampler is applied before the splitter
NamedCalls_SamplerFirst(spec) ==
  (IF Truthy(spec, "sampling_method")
   THEN <<[method |-> spec.sampling_method,
           kwargs |-> GetOr(spec, "sampling_kwargs", <<>>)]>> ELSE <<>>)
  \o (IF Truthy(spec, "splitter_method")
      THEN <<[method |-> spec.splitter_method,
              kwargs |-> GetOr(spec, "splitter_kwargs", <<>>)]>> ELSE <<>>)

\* the functions the batch spec names, in the order they are applied: the
\* splitter, then the sampler
NamedCalls(spec) ==
  (IF Truthy(spec, "splitter_method")
   THEN <<[method |-> spec.splitter_method,
           kwargs |-> GetOr(spec, "splitter_kwargs", <<>>)]>> ELSE <<>>)
  \o (IF Truthy(spec, "sampling_method")
      THEN <<[method |-> spec.sampling_method,
              kwargs |-> GetOr(spec, "sampling_kwargs", <<>>)]>> ELSE <<>>)

\* the named functions applied one after the other to batch_data; log is the
\* sequence of the calls made
RECURSIVE ApplyCalls(_, _, _)
ApplyCalls(calls, data, log) ==
  IF calls = <<>>
  THEN [out |-> Return([batch_data |-> data, batch_markers |-> BatchMarkers(data)]),
        log |-> log]
  ELSE LET r == CallAttribute(calls[1].method, data, calls[1].kwargs)
           called == Append(log, [method |-> calls[1].method, data |-> data, out |-> r])
       IN IF Raised(r) THEN [out |-> r, log |-> called]
          ELSE ApplyCalls(Tail(calls), r.value, called)

\* a batch spec is its class and its mapping
get_batch_data_and_markers(batch_spec) ==
  IF batch_spec.cls # "RuntimeDataBatchSpec"
  THEN [out |-> Raise("BatchSpecError"), log |-> <<>>]
  ELSE ApplyCalls(NamedCalls(batch_spec.spec),
                  GetOr(batch_spec.spec, "batch_data", None), <<>>)

\* the files the reader can read
Paths == {"data.csv", "data.dat"}

\* guess_reader_method_from_path: the reader method of the path's extension
guess_reader_method_from_path(path) ==
  IF path = "data.csv" THEN Return("csv") ELSE Raise("BatchKwargsError")

\* the reader methods a Spark DataFrameReader has
ReaderMethods == {"csv", "parquet", "json", "delta"}

\* _get_reader_fn(reader, reader_method, path): the reader method to use
get_reader_fn(reader_method, path) ==
  IF IsNone(reader_method) /\ IsNone(path) THEN Raise("BatchKwargsError")
  ELSE IF IsNone(reader_method) THEN guess_reader_method_from_path(Val(path))
  ELSE IF Val(reader_method) \in ReaderMethods THEN Return(Val(reader_method))
  ELSE Raise("BatchKwargsError")

\* reader_fn(path): the DataFrame read from the file
ReadFile(path) == DataFrame(SampleRows, "one_row")

\* df.limit(limit)
LimitRows(df, limit) ==
  DataFrame(SubSeq(df.rows, 1, Min(limit, Len(df.rows))), df.collect)

\* a local variable that was never assigned
Unbound == [unbound |-> TRUE]

\* the mapping without key
Without(spec, key) == [k \in DOMAIN spec \ {key} |-> spec[k]]

\* the first part of load_batch: the DataFrame df of the batch spec (Unbound
\* when no branch assigns it), and the batch spec as the branch leaves it
LoadSource(batch_spec) ==
  LET spec == batch_spec.spec
  IN IF batch_spec.cls = "RuntimeDataBatchSpec"
     THEN IF "batch_data" \notin DOMAIN spec
          THEN [df |-> Raise("KeyError"), spec |-> spec]
          ELSE LET popped == Without(spec, "batch_data") @@ ("SparkInMemoryDF" :> TRUE)
               IN IF IsNone(spec.batch_data) THEN [df |-> Return(Unbound), spec |-> popped]
                  ELSE IF Truthy(spec, "data_asset_name")
                  THEN [df |-> Return(Val(spec.batch_data)), spec |-> popped]
                  ELSE [df |-> Raise("ValueError"), spec |-> popped]
     ELSE IF batch_spec.cls = "PathBatchSpec"
     THEN LET reader_fn == get_reader_fn(Get(spec, "reader_method"), Some(spec.path))
          IN IF Raised(reader_fn) THEN [df |-> reader_fn, spec |-> spec]
             ELSE [df |-> Return(ReadFile(spec.path)), spec |-> spec]
     ELSE IF batch_spec.cls = "S3BatchSpec"
     THEN [df |-> Return(Unbound), spec |-> spec]
     ELSE [df |-> Raise("BatchSpecError"), spec |-> spec]

\* the rest of load_batch when df was never assigned: df.limit(limit),
\* df.persist() or Batch(data=df, ...) is the first to read it
LoadUnbound(persist, limit) == Raise("UnboundLocalError")

\* load_batch(batch_spec): its outcome, and the caller's batch spec after
\* the call
load_batch(batch_spec, persist) ==
  LET source == LoadSource(batch_spec)
      limit == GetOr(source.spec, "limit", 0)
      after == [cls |-> batch_spec.cls, spec |-> source.spec]
  IN IF Raised(source.df) THEN [out |-> source.df, batch_spec |-> after]
     ELSE IF source.df.value = Unbound
     THEN [out |-> LoadUnbound(persist, limit), batch_spec |-> after]
     ELSE [out |-> Return([data |-> IF limit # 0
                                    THEN LimitRows(source.df.value, limit)
                                    ELSE source.df.value,
                           batch_spec |-> after,
                           batch_markers |-> [ge_load_time |-> "now"]]),
           batch_spec |-> after]

----------------------------------------------------------------------------
(* The engine: batch data is split and sampled, batches are loaded *)

BatchRows == [x : 0..MaxVal, y : 0..1]

BatchFrames == {DataFrame(rows, "one_row") : rows \in SeqsUpTo(BatchRows, MaxRows)}

Call(method, kwargs) == [method |-> method, kwargs |-> kwargs]

\* the splitter a batch spec names, with its kwargs: the functions of the
\* engine with kwargs that fit or do not fit, a name the engine does not
\* have, and the name of an attribute that is no function
SplitterChoices ==
  {Call("_split_on_whole_table", <<>>),
   Call("_split_on_whole_table", [column_name |-> "x"]),
   Call("_split_on_column_value", [column_name |-> "x", partition_definition |-> [x |-> 1]]),
   Call("_split_on_column_value", [column_name |-> "x", partition_definition |-> [y |-> 0]]),
   Call("_split_on_mod_integer",
        [column_name |-> "x", mod |-> 2, partition_definition |-> [x |-> 1]]),
   Call("_split_on_mod_integer",
        [column_name |-> "x", mod |-> 0, partition_definition |-> [x |-> 0]]),
   Call("_split_on_divided_integer",
        [column_name |-> "x", divisor |-> 2, partition_definition |-> [x |-> 1]]),
   Call("_split_on_multi_column_values", [partition_definition |-> [x |-> 1, y |-> 0]]),
   Call("_split_on_nothing", <<>>),
   Call("_persist", <<>>)}

SamplerChoices ==
  {Call("_sample_using_mod", [column_name |-> "x", mod |-> 2, value |-> 0]),
   Call("_sample_using_a_list", [column_name |-> "x", value_list |-> <<0, 2>>]),
   Call("_sample_using_mod", <<>>),
   Call("_sample_using_nothing", <<>>)}

\* the batch specs get_batch_data_and_markers is called with
DataBatchSpecs ==
  {[cls |-> "RuntimeDataBatchSpec",
    spec |-> ("batch_data" :> batch_data)
               @@ (IF IsNone(splitter) THEN <<>>
                   ELSE ("splitter_method" :> Val(splitter).method)
                          @@ ("splitter_kwargs" :> Val(splitter).kwargs))
               @@ (IF IsNone(sampler) THEN <<>>
                   ELSE ("sampling_method" :> Val(sampler).method)
                          @@ ("sampling_kwargs" :> Val(sampler).kwargs))] :
     batch_data \in {None} \cup {Some(df) : df \in BatchFrames},
     splitter \in {None} \cup {Some(c) : c \in SplitterChoices},
     sampler \in {None} \cup {Some(c) : c \in SamplerChoices}}
  \cup {[cls |-> "PathBatchSpec", spec |-> ("path" :> "data.csv")]}

\* the batch specs load_batch is called with
LoadBatchSpecs ==
  {[cls |-> "RuntimeDataBatchSpec",
    spec |-> batch_data @@ Given("data_asset_name", data_asset_name)
               @@ Given("limit", limit)] :
     batch_data \in {<<>>, "batch_data" :> None}
                      \cup {"batch_data" :> Some(df) : df \in BatchFrames},
     data_asset_name \in {None, Some("asset")},
     limit \in {None, Some(1)}}
  \cup {[cls |-> "PathBatchSpec",
         spec |-> ("path" :> path) @@ Given("reader_method", reader_method)
                    @@ Given("limit", limit)] :
          path \in Paths, reader_method \in {None, Some("csv"), Some("bogus")},
          limit \in {None, Some(1)}}
  \cup {[cls |-> cls, spec |-> Given("limit", limit)] :
          cls \in {"S3BatchSpec", "BatchSpec"}, limit \in {None, Some(1)}}

InitBatch ==
  /\ IdleBatch
  /\ IdleFormat /\ IdleValidate /\ IdleEngine /\ IdleConfig /\ IdleRegistry /\ IdleDeps /\ IdleConnector

\* engine.get_batch_data_and_markers(batch_spec)
GetBatchDataAndMarkers ==
  /\ s_out = NotCalled
  /\ \E spec \in DataBatchSpecs :
       LET r == get_batch_data_and_markers(spec)
       IN /\ s_in' = Some([op |-> "get_batch_data_and_markers", batch_spec |-> spec])
          /\ s_arg' = Some(spec)
          /\ s_out' = r.out
          /\ s_log' = r.log
  /\ UNCHANGED <<formatVars, validateVars, engineVars, domainVars, configVars,
                 registryVars,
                 depsVars, connectorVars>>

\* engine.load_batch(batch_spec), on an engine constructed with persist
LoadBatch ==
  /\ s_out = NotCalled
  /\ \E spec \in LoadBatchSpecs, persist \in BOOLEAN :
       LET r == load_batch(spec, persist)
       IN /\ s_in' = Some([op |-> "load_batch", batch_spec |-> spec, persist |-> persist])
          /\ s_arg' = Some(r.batch_spec)
          /\ s_out' = r.out
          /\ s_log' = <<>>
  /\ UNCHANGED <<formatVars, validateVars, engineVars, domainVars, configVars,
                 registryVars,
                 depsVars, connectorVars>>

\* engine.load_batch(batch_spec) again, with the batch spec object of the
\* call that returned; s_log keeps the calls made before
LoadBatchAgain ==
  /\ ~IsNone(s_in) /\ Val(s_in).op = "load_batch"
  /\ Returned(s_out) /\ Len(s_log) < MaxCalls - 1
  /\ LET r == load_batch(Val(s_arg), Val(s_in).persist)
     IN /\ s_in' = Some([op |-> "load_batch", batch_spec |-> Val(s_arg),
                         persist |-> Val(s_in).persist])
        /\ s_arg' = Some(r.batch_spec)
        /\ s_out' = r.out
        /\ s_log' = Append(s_log, [batch_spec |-> Val(s_in).batch_spec, out |-> s_out])
  /\ UNCHANGED <<formatVars, validateVars, engineVars, domainVars, configVars,
                 registryVars, depsVars, connectorVars>>

\* one application of _split_on_mod_integer with the kwargs of s_in
SplitCall(df, kwargs) ==
  [method |-> "_split_on_mod_integer", data |-> Some(df),
   out |-> CallFunction("_split_on_mod_integer", Some(df), kwargs)]

\* SparkDFExecutionEngine._split_on_mod_integer(df, column_name, mod,
\* partition_definition)
SplitOnModInteger ==
  /\ s_out = NotCalled
  /\ \E df \in BatchFrames, column_name \in {"x", "y"}, mod \in 0..(MaxVal + 1),
        value \in 0..MaxVal :
       LET kwargs == [column_name |-> column_name, mod |-> mod,
                      partition_definition |-> (column_name :> value)]
           call == SplitCall(df, kwargs)
       IN /\ s_in' = Some([op |-> "_split_on_mod_integer", df |-> df, kwargs |-> kwargs])
          /\ s_arg' = Some(df)
          /\ s_out' = call.out
          /\ s_log' = <<call>>
  /\ UNCHANGED <<formatVars, validateVars, engineVars, domainVars, configVars,
                 registryVars,
                 depsVars, connectorVars>>

\* the splitter is applied again, with the same parameters, to its result
SplitOnModIntegerAgain ==
  /\ ~IsNone(s_in) /\ Val(s_in).op = "_split_on_mod_integer"
  /\ Returned(s_out) /\ Len(s_log) < MaxCalls
  /\ LET call == SplitCall(Val(s_out.value), Val(s_in).kwargs)
     IN /\ s_out' = call.out
        /\ s_log' = Append(s_log, call)
  /\ UNCHANGED <<s_arg, s_in, formatVars, validateVars, engineVars, domainVars,
                 configVars, registryVars,
                 depsVars, connectorVars>>

NextBatch ==
  \/ GetBatchDataAndMarkers
  \/ LoadBatch
  \/ LoadBatchAgain
  \/ SplitOnModInteger
  \/ SplitOnModIntegerAgain

SpecBatch == InitBatch /\ [][NextBatch]_vars

----------------------------------------------------------------------------
(* Expectation.validate_configuration and its overrides *)

\* a kwarg value with its Python type: a number is the fraction num / den
PyNone == [type |-> "NoneType", num |-> 0, den |-> 1]
PyStr == [type |-> "str", num |-> 0, den |-> 1]
PyInt(n) == [type |-> "int", num |-> n, den |-> 1]
PyFloat(n, d) == [type |-> "float", num |-> n, den |-> d]

\* isinstance(v, (int, float))
IsNumber(v) == v.type \in {"int", "float"}

\* a <= b, a > b on numbers
LessEq(a, b) == a.num * b.den <= b.num * a.den
Greater(a, b) == a.num * b.den > b.num * a.den

ConfigError == Raise("InvalidExpectationConfigurationError")

\* Expectation.validate_configuration on an instance of expectation_type
\* whose configuration is self_conf
Expectation_validate_configuration(expectation_type, self_conf, configuration) ==
  LET conf == IF IsNone(configuration) THEN configuration_property(self_conf)
              ELSE Return(Val(configuration))
  IN IF Raised(conf) THEN conf
     ELSE IF conf.value.expectation_type # expectation_type THEN ConfigError
     ELSE Return(TRUE)

\* ColumnExpectation.validate_configuration
ColumnExpectation_validate_configuration(configuration) ==
  IF IsNone(configuration) THEN Raise("AttributeError")
  ELSE IF "column" \notin DOMAIN Val(configuration).kwargs THEN ConfigError
  ELSE Return(TRUE)

\* mutant: the upper end of the range is not tested
MostlyValid_NoUpperBound(mostly) == IsNumber(mostly) /\ LessEq(PyInt(0), mostly)

\* the assertions on 'mostly'
MostlyValid(mostly) ==
  IsNumber(mostly) /\ LessEq(PyInt(0), mostly) /\ LessEq(mostly, PyInt(1))

\* ColumnMapExpectation.validate_configuration
ColumnMapExpectation_validate_configuration(expectation_type, self_conf, configuration) ==
  LET super == Expectation_validate_configuration(expectation_type, self_conf,
                                                  configuration)
  IN IF Raised(super) THEN super
     ELSE IF IsNone(configuration) THEN Raise("AttributeError")
     ELSE IF "column" \notin DOMAIN Val(configuration).kwargs THEN ConfigError
     ELSE IF "mostly" \in DOMAIN Val(configuration).kwargs
             /\ ~MostlyValid(Val(configuration).kwargs.mostly)
     THEN ConfigError
     ELSE Return(TRUE)

\* TableExpectation.validate_metric_value_between_configuration
validate_metric_value_between_configuration(configuration) ==
  IF IsNone(configuration) THEN Raise("AttributeError")
  ELSE LET min_val == GetOr(Val(configuration).kwargs, "min_value", PyNone)
           max_val == GetOr(Val(configuration).kwargs, "max_value", PyNone)
       IN IF ~(min_val = PyNone \/ IsNumber(min_val)) THEN ConfigError
          ELSE IF ~(max_val = PyNone \/ IsNumber(max_val)) THEN ConfigError
          ELSE IF min_val # PyNone /\ max_val # PyNone /\ Greater(min_val, max_val)
          THEN ConfigError
          ELSE Return(TRUE)

\* the rule an expectation class (or, for the between rule, the helper its
\* subclasses call) applies; the configuration object is only read
ValidateConfiguration(cls, self_conf, configuration) ==
  [out |-> CASE cls = "Expectation" ->
                  Expectation_validate_configuration(cls, self_conf, configuration)
             [] cls = "ColumnExpectation" ->
                  ColumnExpectation_validate_configuration(configuration)
             [] cls = "ColumnMapExpectation" ->
                  ColumnMapExpectation_validate_configuration(cls, self_conf,
                                                              configuration)
             [] cls = "BetweenExpectation" ->
                  validate_metric_value_between_configuration(configuration),
   configuration |-> configuration]

ExpectationClasses ==
  {"Expectation", "ColumnExpectation", "ColumnMapExpectation", "BetweenExpectation"}

\* the values a configuration gives 'mostly'
MostlyKwargs ==
  {PyNone, PyStr} \cup {PyInt(n) : n \in -1..2}
  \cup {PyFloat(n, MostlyDen) : n \in -1..(MostlyDen + 1)}

\* the values a configuration gives min_value and max_value
ThresholdKwargs == {PyNone, PyStr} \cup {PyInt(n) : n \in 0..MaxVal}

\* the configurations validate_configuration is called with, for an
\* expectation of type cls
CheckedConfigurations(cls) ==
  {[expectation_type |-> expectation_type,
    kwargs |-> Given("column", column) @@ Given("mostly", mostly)
                 @@ Given("min_value", min_value) @@ Given("max_value", max_value)] :
     expectation_type \in {cls, "expect_other"},
     column \in {None, Some("x")},
     mostly \in {None} \cup {Some(v) : v \in MostlyKwargs},
     min_value \in {None} \cup {Some(v) : v \in ThresholdKwargs},
     max_value \in {None} \cup {Some(v) : v \in ThresholdKwargs}}

InitConfig ==
  /\ IdleConfig
  /\ IdleFormat /\ IdleValidate /\ IdleEngine /\ IdleBatch /\ IdleRegistry /\ IdleDeps /\ IdleConnector

\* expectation.validate_configuration(configuration), the instance being
\* configured or not
CallValidateConfiguration(cls) ==
  /\ c_out = NotCalled
  /\ \E self_conf \in {None, Some([expectation_type |-> cls, kwargs |-> [column |-> "x"]])},
        configuration \in {None} \cup {Some(c) : c \in CheckedConfigurations(cls)} :
       /\ c_in' = Some([cls |-> cls, self_configuration |-> self_conf,
                        configuration |-> configuration])
       /\ c_out' = ValidateConfiguration(cls, self_conf, configuration)
  /\ UNCHANGED <<formatVars, validateVars, engineVars, domainVars, batchVars,
                 registryVars,
                 depsVars, connectorVars>>

ValidateConfigurationCall == \E cls \in ExpectationClasses : CallValidateConfiguration(cls)

NextConfig == ValidateConfigurationCall

SpecConfig == InitConfig /\ [][NextConfig]_vars

----------------------------------------------------------------------------
(* MetaExpectation: classes are registered as they are defined *)

MaxName == 3       \* longest class name, in characters

\* a name is the sequence of its characters
UpperChars == {"E", "C"}
LowerChars == {"x"}
DigitChars == {"1"}
NameChars == UpperChars \cup LowerChars \cup DigitChars

\* str.lower() of one character
LowerChar(ch) ==
  CASE ch = "E" -> "e"
    [] ch = "C" -> "c"
    [] OTHER -> ch

\* the end of the longest run of lower-case characters that starts at i
RECURSIVE LowerRunEnd(_, _)
LowerRunEnd(name, i) ==
  IF i < Len(name) /\ name[i + 1] \in LowerChars THEN LowerRunEnd(name, i + 1) ELSE i

\* p1.sub(r"\1_\2", name) from position i on, p1 = (.)([A-Z][a-z]+)
RECURSIVE SubP1(_, _)
SubP1(name, i) ==
  IF i > Len(name) THEN <<>>
  ELSE IF i + 2 <= Len(name) /\ name[i + 1] \in UpperChars /\ name[i + 2] \in LowerChars
  THEN <<name[i], "_">> \o SubSeq(name, i + 1, LowerRunEnd(name, i + 2))
         \o SubP1(name, LowerRunEnd(name, i + 2) + 1)
  ELSE <<name[i]>> \o SubP1(name, i + 1)

\* p2.sub(r"\1_\2", name) from position i on, p2 = ([a-z0-9])([A-Z])
RECURSIVE SubP2(_, _)
SubP2(name, i) ==
  IF i > Len(name) THEN <<>>
  ELSE IF i + 1 <= Len(name) /\ name[i] \in LowerChars \cup DigitChars
          /\ name[i + 1] \in UpperChars
  THEN <<name[i], "_", name[i + 1]>> \o SubP2(name, i + 2)
  ELSE <<name[i]>> \o SubP2(name, i + 1)

camel_to_snake(name) ==
  LET subbed == SubP2(SubP1(name, 1), 1)
  IN [i \in 1..Len(subbed) |-> LowerChar(subbed[i])]

\* register_expectation(cls): the class is entered under its
\* expectation_type
register_expectation(reg, clsname, expectation_type) ==
  [n \in DOMAIN reg \cup {expectation_type} |->
     IF n = expectation_type THEN clsname ELSE reg[n]]

\* MetaExpectation.__new__(cls, clsname, bases, attrs): the attribute
\* expectation_type of the new class (None if neither set nor declared), and
\* the registry after the definition
MetaExpectation_new(reg, clsname, declared, abstract) ==
  IF abstract
  THEN [expectation_type |-> declared, registry |-> reg]
  ELSE [expectation_type |-> Some(camel_to_snake(clsname)),
        registry |-> register_expectation(reg, clsname, camel_to_snake(clsname))]

ClassNames == SeqsUpTo(NameChars, MaxName) \ {<<>>}

\* an explicit expectation_type in the class body
DeclaredTypes == {None, Some(<<"e", "_", "x">>)}

InitRegistry ==
  /\ IdleRegistry
  /\ IdleFormat /\ IdleValidate /\ IdleEngine /\ IdleBatch /\ IdleConfig /\ IdleDeps /\ IdleConnector

\* class clsname(Expectation): ..., with or without an expectation_type in
\* its body, abstract or concrete
DefineClass ==
  /\ classes = <<>>
  /\ \E clsname \in ClassNames, declared \in DeclaredTypes, abstract \in BOOLEAN :
       LET r == MetaExpectation_new(registry, clsname, declared, abstract)
       IN /\ classes' = (clsname :> [declared |-> declared, abstract |-> abstract,
                                     expectation_type |-> r.expectation_type])
          /\ registry' = r.registry
  /\ UNCHANGED <<formatVars, validateVars, engineVars, domainVars, batchVars,
                 configVars,
                 depsVars, connectorVars>>

NextRegistry == DefineClass

SpecRegistry == InitRegistry /\ [][NextRegistry]_vars

----------------------------------------------------------------------------
(* The metric requests of a map expectation: get_validation_dependencies   *)
(* is called, then called again on the same configuration object without   *)
(* runtime overrides, and _validate resolves its result_format for the     *)
(* arguments of the latest call.                                           *)

\* the runtime_configuration of a call: none, an empty dict, a result_format
\* override, an override of another key
DepsRuntimeConfigurations ==
  {None, Some(<<>>), Some([catch_exceptions |-> FALSE])}
    \cup {Some([result_format |-> t]) : t \in KnownFormats}

InitDeps ==
  /\ self_configuration \in InstanceConfigurations
  /\ v_in = None /\ v_out = NotCalled
  /\ IdleDeps
  /\ IdleFormat /\ IdleEngine /\ IdleBatch /\ IdleConfig /\ IdleRegistry /\ IdleConnector

\* expectation.get_validation_dependencies(configuration, execution_engine,
\* runtime_configuration) of a ColumnMapExpectation
GetValidationDependencies ==
  /\ g_out = NotCalled
  /\ \E configuration \in {None} \cup {Some(c) : c \in Configurations},
        execution_engine \in Engines,
        runtime_configuration \in DepsRuntimeConfigurations :
       LET r == ColumnMapExpectation_get_validation_dependencies(self_configuration,
                  configuration, execution_engine, runtime_configuration)
       IN /\ g_in' = Some([call |-> 1, configuration |-> configuration,
                           execution_engine |-> execution_engine,
                           runtime_configuration |-> runtime_configuration,
                           first |-> IF IsNone(configuration) THEN self_configuration
                                     ELSE configuration,
                           before |-> None])
          /\ g_out' = r.out
          /\ g_conf' = r.configuration
          /\ self_configuration' = IF IsNone(configuration) THEN r.configuration
                                   ELSE self_configuration
  /\ UNCHANGED <<g_fmt, v_in, v_out, formatVars, engineVars, domainVars, batchVars,
                 configVars, registryVars, connectorVars>>

\* the same call again, on the configuration object of the first call and
\* without runtime_configuration
GetValidationDependenciesAgain ==
  /\ Returned(g_out) /\ Val(g_in).call = 1 /\ g_fmt = None
  /\ LET r == ColumnMapExpectation_get_validation_dependencies(self_configuration,
                g_conf, Val(g_in).execution_engine, None)
     IN /\ g_in' = Some([call |-> 2, configuration |-> g_conf,
                         execution_engine |-> Val(g_in).execution_engine,
                         runtime_configuration |-> None,
                         first |-> Val(g_in).first,
                         before |-> Val(g_in).runtime_configuration])
        /\ g_out' = r.out
        /\ g_conf' = r.configuration
  /\ UNCHANGED <<g_fmt, validateVars, formatVars, engineVars, domainVars, batchVars,
                 configVars, registryVars, connectorVars>>

\* expectation._validate(configuration, metrics, runtime_configuration) with
\* the configuration and the runtime_configuration of the latest call: the
\* result_format it hands to _format_map_output
ValidateSame ==
  /\ Returned(g_out) /\ g_fmt = None
  /\ g_fmt' = Some(parse_result_format(
                     ValidateResultFormat(Val(g_conf), Val(g_in).runtime_configuration)))
  /\ UNCHANGED <<g_in, g_out, g_conf, validateVars, formatVars, engineVars, domainVars,
                 batchVars, configVars, registryVars, connectorVars>>

NextDeps ==
  \/ GetValidationDependencies
  \/ GetValidationDependenciesAgain
  \/ ValidateSame

SpecDeps == InitDeps /\ [][NextDeps]_vars

----------------------------------------------------------------------------
(* The kwargs a validation run passes on: the dependencies of an           *)
(* expectation are requested twice from its configuration, then the        *)
(* engine resolves a compute domain over the batch it has loaded.  The     *)
(* expectation instance has no configuration of its own: the configuration *)
(* is passed with each call.                                               *)

InitKwargs == InitDeps /\ self_configuration = None

\* the two calls of get_validation_dependencies were made
DepsDone == ~IsNone(g_in) /\ Val(g_in).call = 2

\* the run loads its batch
KwargsLoadBatchData ==
  /\ DepsDone /\ loaded_batch_data = <<>>
  /\ LoadBatchData

KwargsGetComputeDomain ==
  /\ DepsDone
  /\ GetComputeDomain

NextKwargs ==
  \/ GetValidationDependencies
  \/ GetValidationDependenciesAgain
  \/ KwargsLoadBatchData
  \/ KwargsGetComputeDomain

SpecKwargs == InitKwargs /\ [][NextKwargs]_vars

----------------------------------------------------------------------------
(* InferredAssetSqlDataConnector: introspection of the database and the    *)
(* cache of the data assets inferred from it.  A table is the pair         *)
(* <<schema_name, table_name>>, which stands for schema_name.table_name.   *)

\* the defaults of the parameters of _introspect_db
information_schemas ==
  {"INFORMATION_SCHEMA", "information_schema", "performance_schema", "sys", "mysql"}
system_tables == {"sqlite_master"}

Metadata(schema_name, table_name, type) ==
  [schema_name |-> schema_name, table_name |-> table_name, type |-> type]

\* the tables loop of one schema: the entries appended
IntrospectTables(schema_name, table_names, ignore) ==
  LET kept == {i \in 1..Len(table_names) : ~(ignore /\ table_names[i] \in system_tables)}
  IN [k \in 1..Cardinality(kept) |->
        LET i == CHOOSE j \in kept : Cardinality({h \in kept : h < j}) = k - 1
        IN Metadata(schema_name, table_names[i], "table")]

\* the loop variable table_name after the tables loop of one schema: the
\* last name of the schema, or what it was before (None: never assigned)
LoopVariable(table_name, table_names) ==
  IF table_names = <<>> THEN table_name ELSE Some(table_names[Len(table_names)])

\* the views loop of one schema: the test of the system tables reads
\* table_name, the variable of the tables loop
IntrospectViews(schema_name, view_names, table_name, ignore) ==
  IF view_names = <<>> \/ ~ignore
  THEN Return([i \in 1..Len(view_names) |-> Metadata(schema_name, view_names[i], "view")])
  ELSE IF IsNone(table_name) THEN Raise("UnboundLocalError")
  ELSE IF Val(table_name) \in system_tables THEN Return(<<>>)
  ELSE Return([i \in 1..Len(view_names) |-> Metadata(schema_name, view_names[i], "view")])

\* the loop over the schemas from the k-th on, with the entries appended so
\* far
RECURSIVE IntrospectSchemas(_, _, _, _, _)
IntrospectSchemas(db, k, directives, table_name, tables) ==
  IF k > Len(db.schemas) THEN Return(tables)
  ELSE LET schema_name == db.schemas[k]
           ignore == directives.ignore_information_schemas_and_system_tables
       IN IF ignore /\ schema_name \in information_schemas
          THEN IntrospectSchemas(db, k + 1, directives, table_name, tables)
          ELSE IF ~IsNone(directives.schema_name) /\ schema_name # Val(directives.schema_name)
          THEN IntrospectSchemas(db, k + 1, directives, table_name, tables)
          ELSE LET found == IntrospectTables(schema_name, db.tables[schema_name], ignore)
                   last == LoopVariable(table_name, db.tables[schema_name])
                   views == IF directives.include_views
                            THEN IntrospectViews(schema_name, db.views[schema_name],
                                                 last, ignore)
                            ELSE Return(<<>>)
               IN IF Raised(views) THEN views
                  ELSE IntrospectSchemas(db, k + 1, directives, last,
                                         tables \o found \o views.value)

\* InferredAssetSqlDataConnector._introspect_db(**directives)
introspect_db(db, directives) == IntrospectSchemas(db, 1, directives, None, <<>>)

\* _get_partition_definition_list_from_data_asset_config: the query against
\* the table succeeds
Queryable(db, table) == table \notin db.broken

\* the name and the config of the data asset of one introspected table
DataAssetName(settings, metadata) ==
  IF settings.include_schema_name
  THEN <<metadata.schema_name, metadata.table_name>>
  ELSE <<metadata.table_name>>

DataAssetConfig(metadata) ==
  [table_name |-> <<metadata.schema_name, metadata.table_name>>]

\* the table is passed over by the tests of excluded_tables / included_tables
FilteredOut(settings, table) ==
  \/ ~IsNone(settings.excluded_tables) /\ table \in Val(settings.excluded_tables)
  \/ ~IsNone(settings.included_tables) /\ table \notin Val(settings.included_tables)

\* the loop of _refresh_introspected_data_assets_cache from the k-th
\* introspected table on: its outcome and the cache
RECURSIVE RefreshAssets(_, _, _, _, _)
RefreshAssets(settings, db, introspected, k, cache) ==
  IF k > Len(introspected) THEN [out |-> Return(None), cache |-> cache]
  ELSE LET metadata == introspected[k]
           table == <<metadata.schema_name, metadata.table_name>>
       IN IF FilteredOut(settings, table)
          THEN RefreshAssets(settings, db, introspected, k + 1, cache)
          ELSE IF ~Queryable(db, table)
          THEN IF settings.skip_inapplicable_tables
               THEN RefreshAssets(settings, db, introspected, k + 1, cache)
               ELSE [out |-> Raise("ValueError"), cache |-> cache]
          ELSE RefreshAssets(settings, db, introspected, k + 1,
                             (DataAssetName(settings, metadata) :> DataAssetConfig(metadata))
                               @@ cache)

\* _refresh_introspected_data_assets_cache on the cache as it is
refresh_introspected_data_assets_cache(settings, db, cache) ==
  LET introspected == introspect_db(db, settings.introspection_directives)
  IN IF Raised(introspected) THEN [out |-> introspected, cache |-> cache]
     ELSE RefreshAssets(settings, db, introspected.value, 1, cache)

----------------------------------------------------------------------------
(* A connector is constructed on a database, the database changes, the     *)
(* cache is refreshed, the database is introspected.                       *)

MaxRefreshes == 1  \* cache refreshes after the one of the constructor

Directives(schema_name, ignore, include_views) ==
  [schema_name |-> schema_name, ignore_information_schemas_and_system_tables |-> ignore,
   include_views |-> include_views]

\* the lists of tables of the schema main, and the tables of each that
\* cannot be queried
TableLists ==
  {<<>>, <<"t">>, <<"sqlite_master">>, <<"t", "u">>, <<"t", "sqlite_master">>}

Databases ==
  {[schemas |-> <<"information_schema", "main">>,
    tables |-> [information_schema |-> <<"columns">>, main |-> tables],
    views |-> [information_schema |-> <<>>, main |-> views],
    broken |-> {<<"main", t>> : t \in broken}] :
     tables \in TableLists, views \in {<<>>, <<"v">>, <<"sqlite_master">>},
     broken \in SUBSET {"t", "u"}}

ValidDatabase(db) == \A table \in db.broken : \E i \in 1..Len(db.tables.main) : db.tables.main[i] = table[2]

ConnectorSettings ==
  [excluded_tables : {None, Some({<<"main", "u">>})},
   included_tables : {None, Some({<<"main", "t">>, <<"main", "v">>})},
   skip_inapplicable_tables : BOOLEAN,
   include_schema_name : BOOLEAN,
   introspection_directives : {Directives(None, TRUE, TRUE), Directives(None, TRUE, FALSE)}]

InitConnector ==
  /\ database \in {db \in Databases : ValidDatabase(db)}
  /\ connector = None /\ data_assets = <<>>
  /\ r_out = NotCalled /\ i_in = None /\ i_out = NotCalled
  /\ IdleFormat /\ IdleValidate /\ IdleEngine /\ IdleBatch /\ IdleConfig /\ IdleRegistry
  /\ IdleDeps

\* a connector was constructed
Constructed == ~IsNone(connector) /\ Val(connector).constructed

\* InferredAssetSqlDataConnector(...): the constructor fills the empty cache;
\* no connector exists when it raises
Construct ==
  /\ connector = None /\ r_out = NotCalled
  /\ \E settings \in ConnectorSettings :
       LET r == refresh_introspected_data_assets_cache(settings, database, <<>>)
       IN /\ r_out' = r.out
          /\ connector' = Some([settings |-> settings, constructed |-> ~Raised(r.out),
                                 refreshes |-> 0, changed |-> FALSE])
          /\ data_assets' = IF Raised(r.out) THEN <<>> ELSE r.cache
  /\ UNCHANGED <<database, i_in, i_out, formatVars, validateVars, engineVars,
                 domainVars, batchVars, configVars, registryVars, depsVars>>

\* tables and views are created and dropped, tables become unqueryable
AlterDatabase ==
  /\ Constructed /\ ~Val(connector).changed /\ i_out = NotCalled
  /\ Val(connector).refreshes < MaxRefreshes
  /\ \E db \in Databases :
       /\ ValidDatabase(db) /\ db # database
       /\ database' = db
  /\ connector' = Some([Val(connector) EXCEPT !.changed = TRUE])
  /\ UNCHANGED <<data_assets, r_out, i_in, i_out, formatVars, validateVars, engineVars,
                 domainVars, batchVars, configVars, registryVars, depsVars>>

\* connector._refresh_data_references_cache(): the cache of the data assets
\* is refreshed; the data references the parent class then builds from the
\* data assets are not part of the model
RefreshDataReferencesCache ==
  /\ Constructed /\ i_out = NotCalled
  /\ Val(connector).refreshes < MaxRefreshes
  /\ LET r == refresh_introspected_data_assets_cache(Val(connector).settings, database,
                                                     data_assets)
     IN /\ r_out' = r.out
        /\ data_assets' = r.cache
  /\ connector' = Some([Val(connector) EXCEPT !.refreshes = @ + 1, !.changed = FALSE])
  /\ UNCHANGED <<database, i_in, i_out, formatVars, validateVars, engineVars,
                 domainVars, batchVars, configVars, registryVars, depsVars>>

\* connector._introspect_db(schema_name, ignore_..., include_views=...)
IntrospectDb ==
  /\ Constructed /\ i_out = NotCalled
  /\ \E schema_name \in {None, Some("main")}, ignore \in BOOLEAN, include_views \in BOOLEAN :
       /\ i_in' = Some(Directives(schema_name, ignore, include_views))
       /\ i_out' = introspect_db(database, Directives(schema_name, ignore, include_views))
  /\ UNCHANGED <<database, connector, data_assets, r_out, formatVars, validateVars,
                 engineVars, domainVars, batchVars, configVars, registryVars, depsVars>>

NextConnector ==
  \/ Construct
  \/ AlterDatabase
  \/ RefreshDataReferencesCache
  \/ IntrospectDb

SpecConnector == InitConnector /\ [][NextConnector]_vars

----------------------------------------------------------------------------
(* Properties of the formatter, checked under SpecFormat *)

Fmt == f_in.result_format.result_format
Limit == f_in.result_format.partial_unexpected_count
TierIndex(fmt) == CHOOSE i \in 1..Len(ResultFormats) : ResultFormats[i] = fmt
AtTier(fmt) == [f_in.result_format EXCEPT !.result_format = fmt]

\* every key of the dict lo is a key of hi with the same value
DictSubset(lo, hi) == \A k \in DOMAIN lo : k \in DOMAIN hi /\ hi[k] = lo[k]

PayloadSubset(lo, hi) ==
  /\ DOMAIN lo \subseteq DOMAIN hi
  /\ lo.success = hi.success
  /\ "result" \in DOMAIN lo => DictSubset(lo.result, hi.result)

\* C4: the tiers are additive supersets.  For the same raw inputs and the
\* same partial_unexpected_count, every key of the payload (and of its nested
\* result) at a lower tier is present with the same value at every higher
\* tier, in the order BOOLEAN_ONLY, BASIC, SUMMARY, COMPLETE; and
\* BOOLEAN_ONLY yields exactly {success}.
C4_TiersAdditive ==
  (Returned(f_out) /\ Fmt \in KnownFormats) =>
     /\ Fmt = "BOOLEAN_ONLY" =>
          DOMAIN f_out.value = {"success"} /\ f_out.value.success = f_in.success
     /\ \A i \in 1..(TierIndex(Fmt) - 1) :
          LET lo == FormatOf(f_in, AtTier(ResultFormats[i]))
          IN Returned(lo) /\ PayloadSubset(lo.value, f_out.value)

\* a COMPLETE payload whose list is longer than the limit and whose null
\* count and index list are known: all four tiers differ
C4_Witness ==
  /\ Returned(f_out) /\ Fmt = "COMPLETE"
  /\ 0 < Limit /\ Limit < Len(Val(f_in.unexpected_list))
  /\ ~IsNone(f_in.nonnull_count) /\ ~IsNone(f_in.unexpected_index_list)
  /\ DOMAIN f_out.value.result # DOMAIN FormatOf(f_in, AtTier("SUMMARY")).value.result
  /\ DOMAIN FormatOf(f_in, AtTier("SUMMARY")).value.result
       # DOMAIN FormatOf(f_in, AtTier("BASIC")).value.result

\* the entries the claim C5 prescribes: the distinct values ranked by
\* descending frequency, then ascending value; the first limit of them
RankedCounts(list, limit) ==
  LET kept == Slice(SortedByCountThenValue(CounterItems(list)), limit)
  IN [i \in 1..Len(kept) |-> [value |-> kept[i][1], count |-> kept[i][2]]]

AllHashable(list) == \A i \in 1..Len(list) : list[i] # Unhashable

\* C5: for SUMMARY and COMPLETE with a limit L > 0 and hashable unexpected
\* values, partial_unexpected_counts holds the L most frequent distinct
\* values as {value, count}, ranked by descending frequency and, among values
\* of equal frequency, by ascending value, both for which values are kept
\* within the limit and for the order of the entries.
C5_MostFrequentRanked ==
  (/\ Returned(f_out) /\ Fmt \in {"SUMMARY", "COMPLETE"}
   /\ 0 < Limit /\ AllHashable(Val(f_in.unexpected_list))) =>
     f_out.value.result.partial_unexpected_counts
       = RankedCounts(Val(f_in.unexpected_list), Limit)

\* C6: for BASIC and above the result holds element_count, unexpected_count,
\* unexpected_percent and partial_unexpected_list, the first
\* partial_unexpected_count elements of unexpected_list; and it holds
\* missing_count (= element_count - nonnull_count), missing_percent and
\* unexpected_percent_nonmissing exactly when nonnull_count is known.
C6_BasicFields ==
  (f_out # NotCalled /\ Fmt \in KnownFormats \ {"BOOLEAN_ONLY"}) =>
     /\ Returned(f_out)
     /\ LET r == f_out.value.result
            list == Val(f_in.unexpected_list)
            n == IF Limit < Len(list) THEN Limit ELSE Len(list)
        IN /\ {"element_count", "unexpected_count", "unexpected_percent",
               "partial_unexpected_list"} \subseteq DOMAIN r
           /\ r.element_count = f_in.element_count
           /\ r.unexpected_count = f_in.unexpected_count
           /\ Len(r.partial_unexpected_list) = n
           /\ \A i \in 1..n : r.partial_unexpected_list[i] = list[i]
           /\ \A k \in {"missing_count", "missing_percent",
                        "unexpected_percent_nonmissing"} :
                k \in DOMAIN r <=> ~IsNone(f_in.nonnull_count)
           /\ ~IsNone(f_in.nonnull_count) =>
                r.missing_count
                  = Some(Val(f_in.element_count) - Val(f_in.nonnull_count))

\* a BASIC payload with a known null count and a list cut by the limit
C6_Witness ==
  /\ Returned(f_out) /\ Fmt = "BASIC"
  /\ ~IsNone(f_in.nonnull_count)
  /\ Val(f_in.nonnull_count) < Val(f_in.element_count)
  /\ 0 < Limit /\ Limit < Len(Val(f_in.unexpected_list))
  /\ Len(f_out.value.result.partial_unexpected_list) = Limit

\* the fraction p = <<numerator, denominator>> equals a / b * 100
IsPercentOf(p, a, b) == p[2] > 0 /\ p[1] * b = 100 * a * p[2]

\* C7: no division error.  With element_count = 0 the fields
\* unexpected_percent, missing_percent and unexpected_percent_nonmissing are
\* null; with element_count > 0 and nonnull_count = 0
\* unexpected_percent_nonmissing is null; otherwise
\* unexpected_percent = unexpected_count / element_count * 100.
C7_NoDivisionError ==
  /\ f_out.exc # "ZeroDivisionError"
  /\ (Returned(f_out) /\ Fmt \in KnownFormats \ {"BOOLEAN_ONLY"}) =>
       LET r == f_out.value.result
           known == ~IsNone(f_in.nonnull_count)
       IN /\ Val(f_in.element_count) = 0 =>
               /\ r.unexpected_percent = None
               /\ known => /\ r.missing_percent = None
                           /\ r.unexpected_percent_nonmissing = None
          /\ (Val(f_in.element_count) > 0 /\ known /\ Val(f_in.nonnull_count) = 0) =>
               r.unexpected_percent_nonmissing = None
          /\ Val(f_in.element_count) > 0 =>
               /\ ~IsNone(r.unexpected_percent)
               /\ IsPercentOf(Val(r.unexpected_percent),
                              Val(f_in.unexpected_count), Val(f_in.element_count))

\* element_count = 0, and element_count > 0 with nonnull_count = 0, both
\* formatted above BOOLEAN_ONLY
C7_Witness ==
  /\ Returned(f_out) /\ Fmt \in KnownFormats \ {"BOOLEAN_ONLY"}
  /\ ~IsNone(f_in.nonnull_count) /\ Val(f_in.nonnull_count) = 0
  /\ Val(f_in.element_count) > 0 /\ Val(f_in.unexpected_count) > 0
  /\ f_out.value.result.unexpected_percent_nonmissing = None
  /\ ~IsNone(f_out.value.result.unexpected_percent)

\* C8: a result_format that is none of BOOLEAN_ONLY, BASIC, SUMMARY, COMPLETE
\* ends in an error and returns no payload; there is no fallback to a
\* default tier.
C8_UnknownFormatFatal ==
  (f_out # NotCalled /\ Fmt \notin KnownFormats) => Raised(f_out)

\* an unknown result_format that went through every tier's code and raised
C8_Witness ==
  /\ Fmt = UnknownFormat /\ f_out = Raise("ValueError")
  /\ Len(Val(f_in.unexpected_list)) > 0

----------------------------------------------------------------------------
(* Properties of the map expectations, checked under SpecValidate *)

VIn == Val(v_in)
Called(cls) == v_out # NotCalled /\ VIn.cls = cls
CountsKnown(metrics) == {RowCount, NullCount, UnexpectedCount} \subseteq DOMAIN metrics

\* the configuration the call validates: its argument, or the instance's
ValidatedConfiguration ==
  IF IsNone(VIn.configuration) THEN Val(self_configuration) ELSE Val(VIn.configuration)

\* the tier the call formats with: runtime_configuration, then the kwargs of
\* the configuration, then the class default
EffectiveTier ==
  IF ~IsNone(VIn.runtime_configuration)
  THEN Val(VIn.runtime_configuration).result_format
  ELSE IF "result_format" \in DOMAIN ValidatedConfiguration.kwargs
  THEN ValidatedConfiguration.kwargs.result_format
  ELSE "BASIC"

\* the threshold of the configured expectation instance
InstanceMostly ==
  IF "mostly" \in DOMAIN Val(self_configuration).kwargs
  THEN Val(self_configuration).kwargs.mostly
  ELSE <<1, 1>>

\* the success-ratio rule of the map expectations, for total - null >= 0:
\* (total - unexpected - null) / (total - null) >= mostly, and vacuously
\* true when total - null = 0
RatioRule(total, null, unexpected, mostly) ==
  IF total - null = 0 THEN TRUE
  ELSE (total - unexpected - null) * mostly[2] >= mostly[1] * (total - null)

\* C1: ColumnMapExpectation._validate, for known integer total_count,
\* null_count, unexpected_count with 0 <= unexpected_count <= total_count -
\* null_count and a threshold mostly in [0, 1]: success is
\* ((total_count - unexpected_count - null_count) / (total_count - null_count)
\* >= mostly) when total_count - null_count # 0, and True when it is 0; the
\* call returns whenever the unexpected values its tier formats are among the
\* metrics.  total = 10, null = 2, unexpected = 1 gives False for mostly 0.9
\* and True for mostly 0.8.  mostly is the threshold the expectation instance
\* is configured with.
C1_SuccessRatio ==
  /\ (/\ Called("ColumnMapExpectation")
      /\ ~IsNone(self_configuration)
      /\ CountsKnown(VIn.metrics)) =>
        /\ Returned(v_out) =>
             v_out.value.success
               = RatioRule(VIn.metrics[RowCount], VIn.metrics[NullCount],
                           VIn.metrics[UnexpectedCount], InstanceMostly)
        /\ (VIn.method = "_validate"
            /\ (EffectiveTier = "BOOLEAN_ONLY" \/ UnexpectedValues \in DOMAIN VIn.metrics)) =>
             Returned(v_out)
  /\ ColumnMapSuccess(Some(10), Some(2), Some(1), <<9, 10>>) = Return(FALSE)
  /\ ColumnMapSuccess(Some(10), Some(2), Some(1), <<8, 10>>) = Return(TRUE)
  /\ \A m \in MostlyValues : ColumnMapSuccess(Some(0), Some(0), Some(0), m) = Return(TRUE)

\* a verdict False of _validate on non-null rows, against a threshold
\* strictly between 0 and 1, with null rows excluded from the ratio
C1_Witness ==
  /\ Called("ColumnMapExpectation") /\ VIn.method = "_validate"
  /\ ~IsNone(self_configuration) /\ CountsKnown(VIn.metrics)
  /\ Returned(v_out) /\ v_out.value.success = FALSE
  /\ InstanceMostly[1] > 0 /\ InstanceMostly[1] < InstanceMostly[2]
  /\ VIn.metrics[NullCount] > 0 /\ VIn.metrics[UnexpectedCount] > 0

\* C2: when total_count (table.row_count) is absent from the metrics,
\* ColumnMapExpectation._validate is vacuously true: it returns a result with
\* success True, for every result_format tier.
C2_UnknownTotalVacuous ==
  (/\ Called("ColumnMapExpectation") /\ VIn.method = "_validate"
   /\ ~IsNone(self_configuration)
   /\ RowCount \notin DOMAIN VIn.metrics
   /\ {NullCount, UnexpectedCount, UnexpectedValues} \subseteq DOMAIN VIn.metrics) =>
     Returned(v_out) /\ v_out.value.success = TRUE

\* C3: a ColumnPairMapExpectation validated through metrics_validate reports,
\* for the row count, null count and unexpected count of the resolved metrics
\* and the threshold mostly, the success value of the ratio rule, for every
\* result_format including BOOLEAN_ONLY.
C3_PairSameRule ==
  (/\ Called("ColumnPairMapExpectation") /\ VIn.method = "metrics_validate"
   /\ ~IsNone(self_configuration)
   /\ CountsKnown(VIn.metrics)
   /\ Returned(v_out)) =>
     v_out.value.success
       = RatioRule(VIn.metrics[RowCount], VIn.metrics[NullCount],
                   VIn.metrics[UnexpectedCount], InstanceMostly)

----------------------------------------------------------------------------
(* Properties of resolve_metric_bundle, checked under SpecEngine *)

\* the backend queries of the latest call
LastLog == agg_log[Len(agg_log)]

BundleDomains == {b_in[i].domain_kwargs : i \in 1..Len(b_in)}
BundleIds == {b_in[i].id : i \in 1..Len(b_in)}

QueriesOf(domain_kwargs) ==
  {k \in 1..Len(LastLog) : LastLog[k].domain_kwargs = domain_kwargs}

\* the position of bundle entry p among the entries of its domain, in the
\* order of declaration in the bundle
PositionInDomain(p) ==
  Cardinality({j \in 1..p : b_in[j].domain_kwargs = b_in[p].domain_kwargs})

\* C9: resolve_metric_bundle executes the backend aggregate query exactly
\* once per distinct compute-domain id of the bundle (never more than once,
\* also when it raises); every metric id is assigned the value at its own
\* position, in the order of declaration in the bundle, of the single row
\* returned for its domain; and the returned mapping has exactly the metric
\* ids of the bundle as keys.
C9_OneRoundTripPerDomain ==
  Len(agg_log) > 0 =>
    /\ \A d \in BundleDomains : Cardinality(QueriesOf(d)) <= 1
    /\ Returned(b_out) =>
         /\ Len(LastLog) = Cardinality(BundleDomains)
         /\ DOMAIN b_out.value = BundleIds
         /\ \A p \in 1..Len(b_in) :
              /\ Cardinality(QueriesOf(b_in[p].domain_kwargs)) = 1
              /\ \A k \in QueriesOf(b_in[p].domain_kwargs) :
                   /\ Len(LastLog[k].res) = 1
                   /\ LastLog[k].column_aggregates[PositionInDomain(p)]
                        = b_in[p].column_aggregate
                   /\ b_out.value[b_in[p].id] = LastLog[k].res[1][PositionInDomain(p)]

\* three metrics over two compute domains, two of them with different
\* values over the same domain: two round trips, three values
C9_Witness ==
  /\ Len(agg_log) = 1 /\ Returned(b_out)
  /\ Len(b_in) = 3 /\ Cardinality(BundleIds) = 3 /\ Cardinality(BundleDomains) = 2
  /\ Len(LastLog) = 2
  /\ \E k \in 1..Len(LastLog) :
       Len(LastLog[k].ids) = 2 /\ LastLog[k].res[1][1] # LastLog[k].res[1][2]

\* the aggregates the engine evaluated for a metric id in the run
Evaluations(id) ==
  {e \in (1..Len(agg_log)) \X (1..MaxBundle) \X (1..MaxBundle) :
     /\ e[2] <= Len(agg_log[e[1]])
     /\ e[3] <= Len(agg_log[e[1]][e[2]].ids)
     /\ agg_log[e[1]][e[2]].ids[e[3]] = id}

\* C10: two metric requests with the same MetricConfiguration id are
\* computed only once within a validation run: the engine evaluates one
\* aggregate for that id, also when both requests reach
\* resolve_metric_bundle in the same bundle or in repeated calls.
C10_ComputedOnce ==
  \A id \in BundleIds : Cardinality(Evaluations(id)) <= 1

\* a group of the bundle violates the contract of the graph: the compute
\* domain get_compute_domain returns for it differs from the domain kwargs it
\* was declared with, or the backend answers its query with no row, several
\* rows, or a row shorter or longer than the group
GraphViolation(domain_kwargs) ==
  LET domain == get_compute_domain(loaded_batch_data, active_batch_id, domain_kwargs)
  IN /\ Returned(domain)
     /\ \/ domain.value.compute_domain_kwargs # domain_kwargs
        \/ domain.value.data.collect # "one_row"

MalformedAnswer(query) ==
  Len(query.res) # 1 \/ \E r \in 1..Len(query.res) : Len(query.res[r]) # Len(query.ids)

\* C11: resolve_metric_bundle treats violations of the graph's contract as
\* fatal: when a group's compute domain differs from the domain kwargs it was
\* declared with, or the backend answers with a number of rows other than
\* one or with a row whose length is not the number of metric ids of the
\* group, the call raises and returns no metric value, also none of the
\* groups executed before.
C11_GraphViolationFatal ==
  Len(agg_log) > 0 =>
    /\ (\E d \in BundleDomains : GraphViolation(d)) => Raised(b_out)
    /\ \A k \in 1..Len(LastLog) :
         MalformedAnswer(LastLog[k]) => b_out = Raise("AssertionError")
    /\ Returned(b_out) =>
         \A d \in BundleDomains :
            /\ ComputeDomainKwargs(d) = d
            /\ \A k \in QueriesOf(d) : ~MalformedAnswer(LastLog[k])

\* a first group was executed and answered well, the second group's answer
\* is malformed: the call raises
C11_Witness ==
  /\ Len(agg_log) = 1 /\ b_out = Raise("AssertionError")
  /\ Len(LastLog) = 2
  /\ ~MalformedAnswer(LastLog[1]) /\ MalformedAnswer(LastLog[2])

----------------------------------------------------------------------------
(* Properties of get_compute_domain, checked under SpecDomain *)

DIn == Val(d_in)
LoadedIds == DOMAIN loaded_batch_data

\* the data of the compute domain over a batch
DomainDataOf(batch) ==
  IF Truthy(DIn, "row_condition") THEN FilterRows(batch, DIn.row_condition) ELSE batch

\* C12: with an explicit batch_id get_compute_domain uses that loaded batch
\* and raises if no batch with that id is loaded; without batch_id it uses
\* the single loaded batch if exactly one batch is loaded, and raises if no
\* batch or more than one batch is loaded.
C12_BatchResolution ==
  ~IsNone(d_in) =>
    /\ "batch_id" \in DOMAIN DIn /\ DIn.batch_id \notin LoadedIds
         => d_out = Raise("ValidationError")
    /\ "batch_id" \notin DOMAIN DIn /\ Cardinality(LoadedIds) # 1
         => d_out = Raise("ValidationError")
    /\ Returned(d_out) /\ "batch_id" \in DOMAIN DIn
         => d_out.value.data = DomainDataOf(loaded_batch_data[DIn.batch_id])
    /\ Returned(d_out) /\ "batch_id" \notin DOMAIN DIn
         => \E b \in LoadedIds :
               /\ LoadedIds = {b}
               /\ d_out.value.data = DomainDataOf(loaded_batch_data[b])

\* two batches are loaded and the domain kwargs name none of them
C12_Witness ==
  /\ ~IsNone(d_in) /\ "batch_id" \notin DOMAIN DIn
  /\ Cardinality(LoadedIds) = 2
  /\ d_out = Raise("ValidationError")

RecognizedParsers == {"spark", "great_expectations__experimental__"}

UnrecognizedRowFilter ==
  /\ ~IsNone(d_in)
  /\ Truthy(DIn, "row_condition")
  /\ ("condition_parser" \in DOMAIN DIn => DIn.condition_parser \notin RecognizedParsers)

\* C13: given a row filter whose parser tag is not "spark" or
\* "great_expectations__experimental__" (or is missing), get_compute_domain
\* fails with a domain-resolution error and returns no data: the batch is
\* not filtered and not returned unfiltered.
C13_UnknownParserFatal ==
  UnrecognizedRowFilter =>
    /\ Raised(d_out)
    /\ d_out.exc \in {"ValidationError", "ValueError", "GreatExpectationsError"}
    /\ d_filters = <<>>
    /\ (Returned(ComputeDomainBatch(loaded_batch_data, active_batch_id, DIn))
        /\ ~Truthy(DIn, "table")) => d_out = Raise("GreatExpectationsError")

\* the batch is resolved, the filter carries no parser tag
C13_Witness ==
  /\ UnrecognizedRowFilter /\ "condition_parser" \notin DOMAIN DIn
  /\ "batch_id" \in DOMAIN DIn /\ DIn.batch_id \in LoadedIds
  /\ d_out = Raise("GreatExpectationsError")

\* C14: when the domain kwargs name a table, get_compute_domain raises
\* before any row filter is applied to the batch data and returns nothing,
\* whatever the other domain kwargs are.
C14_NamedTableFailsFast ==
  (~IsNone(d_in) /\ Truthy(DIn, "table")) =>
    /\ Raised(d_out)
    /\ d_filters = <<>>
    /\ Returned(ComputeDomainBatch(loaded_batch_data, active_batch_id, DIn))
         => d_out = Raise("ValueError")

\* a table is named together with a well-formed row filter on a loaded batch
C14_Witness ==
  /\ ~IsNone(d_in) /\ Truthy(DIn, "table")
  /\ Truthy(DIn, "row_condition") /\ Get(DIn, "condition_parser") = Some("spark")
  /\ "batch_id" \in DOMAIN DIn /\ DIn.batch_id \in LoadedIds
  /\ d_out = Raise("ValueError")

----------------------------------------------------------------------------
(* Properties of the batch operations, checked under SpecBatch *)

SIn == Val(s_in)
CalledOp(op) == ~IsNone(s_in) /\ SIn.op = op
SpecIn == SIn.batch_spec.spec

\* the number of functions the batch spec names
NamedCount ==
  (IF Truthy(SpecIn, "splitter_method") THEN 1 ELSE 0)
  + (IF Truthy(SpecIn, "sampling_method") THEN 1 ELSE 0)

\* C15: get_batch_data_and_markers applies the named splitter (if any)
\* first and the named sampler (if any) second: the sampler receives exactly
\* the splitter's output, the data returned is the output of the last
\* function applied, and the fingerprint in the markers is computed over the
\* data returned.
C15_SplitterThenSampler ==
  (CalledOp("get_batch_data_and_markers")
   /\ SIn.batch_spec.cls = "RuntimeDataBatchSpec") =>
    /\ Len(s_log) <= NamedCount
    /\ (Truthy(SpecIn, "splitter_method") /\ Len(s_log) >= 1) =>
         /\ s_log[1].method = SpecIn.splitter_method
         /\ s_log[1].data = SpecIn.batch_data
    /\ (Truthy(SpecIn, "splitter_method") /\ Len(s_log) = 2) =>
         /\ s_log[2].method = SpecIn.sampling_method
         /\ Returned(s_log[1].out)
         /\ s_log[2].data = s_log[1].out.value
    /\ (~Truthy(SpecIn, "splitter_method") /\ Len(s_log) = 1) =>
         /\ s_log[1].method = SpecIn.sampling_method
         /\ s_log[1].data = SpecIn.batch_data
    /\ Returned(s_out) =>
         /\ Len(s_log) = NamedCount
         /\ s_out.value.batch_data =
              IF NamedCount = 0 THEN SpecIn.batch_data ELSE s_log[NamedCount].out.value
         /\ IF IsNone(s_out.value.batch_data)
            THEN DOMAIN s_out.value.batch_markers = {"ge_load_time"}
            ELSE s_out.value.batch_markers.sparkdf_data_fingerprint
                   = Fingerprint(Val(s_out.value.batch_data))

\* a splitter and a sampler are named, each of them removes rows, and the
\* fingerprint of the data returned is not the fingerprint of the input
C15_Witness ==
  /\ CalledOp("get_batch_data_and_markers") /\ Returned(s_out)
  /\ Len(s_log) = 2
  /\ s_log[1].out.value # s_log[1].data
  /\ s_log[2].out.value # s_log[2].data
  /\ s_out.value.batch_markers.sparkdf_data_fingerprint
       # Fingerprint(Val(SpecIn.batch_data))

ConfigurationErrors ==
  {"BatchSpecError", "BatchKwargsError", "InvalidExpectationConfigurationError"}

\* C16: given a splitter_method or sampling_method that is not one of the
\* engine's splitter / sampler functions, get_batch_data_and_markers fails
\* with a configuration error and returns no data; no other attribute of the
\* engine is reached through these names.
C16_UnknownNameIsConfigurationError ==
  (CalledOp("get_batch_data_and_markers")
   /\ \E k \in 1..Len(s_log) : s_log[k].method \notin SplitterNames \cup SamplerNames) =>
    /\ Raised(s_out)
    /\ s_out.exc \in ConfigurationErrors

\* the batch spec has no source load_batch can resolve
LacksSource(bs) ==
  \/ bs.cls \notin {"PathBatchSpec", "S3BatchSpec", "RuntimeDataBatchSpec"}
  \/ bs.cls = "S3BatchSpec"
  \/ bs.cls = "RuntimeDataBatchSpec" /\ Get(bs.spec, "batch_data") = Some(None)

\* C17: load_batch fails with BatchSpecError whenever the batch spec lacks a
\* resolvable source: a spec that is no path, S3 or in-memory spec, an
\* in-memory spec whose batch_data is None, an S3 spec; no Batch is returned
\* and no other kind of error is raised.
C17_NoSourceIsBatchSpecError ==
  (CalledOp("load_batch") /\ LacksSource(SIn.batch_spec)) =>
    s_out = Raise("BatchSpecError")

\* the rows of rows whose column c is v modulo m, in order
RECURSIVE RowsModulo(_, _, _, _)
RowsModulo(rows, c, m, v) ==
  IF rows = <<>> THEN <<>>
  ELSE IF m # 0 /\ Head(rows)[c] % m = v
  THEN <<Head(rows)>> \o RowsModulo(Tail(rows), c, m, v)
  ELSE RowsModulo(Tail(rows), c, m, v)

SplitExpected ==
  RowsModulo(SIn.df.rows, SIn.kwargs.column_name, SIn.kwargs.mod,
             SIn.kwargs.partition_definition[SIn.kwargs.column_name])

----------------------------------------------------------------------------
(* Properties of validate_configuration, checked under SpecConfig *)

CIn == Val(c_in)
CKwargs == Val(CIn.configuration).kwargs
ConfigurationGiven == ~IsNone(c_in) /\ ~IsNone(CIn.configuration)

\* the value is a number in [0, 1]
NumberInUnitInterval(v) ==
  /\ v.type \in {"int", "float"}
  /\ 0 <= v.num /\ v.num <= v.den

\* both thresholds are given as numbers, and min_value > max_value
MinAboveMax ==
  /\ "min_value" \in DOMAIN CKwargs /\ "max_value" \in DOMAIN CKwargs
  /\ CKwargs.min_value.type = "int" /\ CKwargs.max_value.type = "int"
  /\ CKwargs.min_value.num > CKwargs.max_value.num

\* the thresholds are absent, None or numbers
ThresholdsWellTyped ==
  \A key \in {"min_value", "max_value"} \cap DOMAIN CKwargs :
     CKwargs[key].type \in {"NoneType", "int"}

\* the configuration satisfies the structural rules of the class
StructurallyValid ==
  CASE CIn.cls = "Expectation" ->
         Val(CIn.configuration).expectation_type = CIn.cls
    [] CIn.cls = "ColumnExpectation" -> "column" \in DOMAIN CKwargs
    [] CIn.cls = "ColumnMapExpectation" ->
         /\ Val(CIn.configuration).expectation_type = CIn.cls
         /\ "column" \in DOMAIN CKwargs
         /\ "mostly" \in DOMAIN CKwargs => NumberInUnitInterval(CKwargs.mostly)
    [] CIn.cls = "BetweenExpectation" -> ThresholdsWellTyped /\ ~MinAboveMax

----------------------------------------------------------------------------
(* Properties of the registry, checked under SpecRegistry *)

\* the name a class is to be registered under: its explicit expectation_type
\* when it declares one, else the snake-case form of its class name
RegisteredName(clsname) ==
  IF IsNone(classes[clsname].declared) THEN camel_to_snake(clsname)
  ELSE Val(classes[clsname].declared)

\* C20: every concrete expectation class is registered under its explicit
\* expectation_type when the class declares one, and otherwise under the
\* snake-case form of its class name; after class definition the class's
\* expectation_type attribute is the name it was registered under.
C20_RegisteredUnderDeclaredType ==
  \A clsname \in DOMAIN classes :
     ~classes[clsname].abstract =>
       /\ RegisteredName(clsname) \in DOMAIN registry
       /\ registry[RegisteredName(clsname)] = clsname
       /\ classes[clsname].expectation_type = Some(RegisteredName(clsname))

----------------------------------------------------------------------------
(* Properties of the metric requests, checked under SpecDeps *)

GIn == Val(g_in)
DepsCalled == ~IsNone(g_in)

\* the configuration of the call: the one passed, or the instance's
DepsConfiguration ==
  IF IsNone(GIn.configuration) THEN Val(self_configuration) ELSE Val(GIn.configuration)

\* the result_format by priority: the runtime_configuration of the call, then
\* the kwargs of the configuration, then the class default
EffectiveResultFormat(kwargs, runtime_configuration) ==
  IF ~IsNone(runtime_configuration) /\ "result_format" \in DOMAIN Val(runtime_configuration)
  THEN Val(runtime_configuration).result_format
  ELSE IF "result_format" \in DOMAIN kwargs THEN kwargs.result_format
  ELSE DefaultResultFormat

\* C21: the effective result_format is resolved with the priority
\* runtime_configuration > configuration kwargs > class default, and
\* get_validation_dependencies (through get_runtime_kwargs) and _validate
\* resolve the same result_format for the same configuration and
\* runtime_configuration.
C21_SameEffectiveResultFormat ==
  ~IsNone(g_fmt) =>
    /\ Returned(g_out)
    /\ g_out.value.result_format = Val(g_fmt)
    /\ Val(g_fmt).result_format =
         EffectiveResultFormat(DepsConfiguration.kwargs, GIn.runtime_configuration)

\* the three levels name three different formats, and both operations
\* resolve the one of the runtime_configuration
C21_Witness ==
  /\ ~IsNone(g_fmt) /\ Returned(g_out)
  /\ GIn.runtime_configuration = Some([result_format |-> "COMPLETE"])
  /\ Get(DepsConfiguration.kwargs, "result_format") = Some("SUMMARY")
  /\ g_out.value.result_format.result_format = "COMPLETE"
  /\ Val(g_fmt).result_format = "COMPLETE"

----------------------------------------------------------------------------
(* Properties of the SQL data connector, checked under SpecConnector *)

Settings == Val(connector).settings

\* the database is as it was at the latest refresh of the cache
AtLatestRefresh == ~IsNone(connector) /\ ~Val(connector).changed

\* the latest introspection of the connector
Introspected == introspect_db(database, Settings.introspection_directives)

\* the introspected tables the filters of the connector let through
Considered ==
  {Introspected.value[k] : k \in {j \in 1..Len(Introspected.value) :
     ~FilteredOut(Settings, <<Introspected.value[j].schema_name,
                             Introspected.value[j].table_name>>)}}

TableOf(metadata) == <<metadata.schema_name, metadata.table_name>>

\* the tables the data assets of the cache stand for
CachedTables == {data_assets[name].table_name : name \in DOMAIN data_assets}

\* C22: during introspection a table that cannot be queried is skipped
\* (skip_inapplicable_tables: the remaining tables are still processed) or
\* aborts the operation with an error (otherwise); after any sequence of
\* cache refreshes no table that was unqueryable at the latest refresh
\* appears in data_assets.
C22_UnqueryableSkippedOrFatal ==
  (AtLatestRefresh /\ Returned(Introspected)) =>
    /\ Settings.skip_inapplicable_tables =>
         /\ Returned(r_out)
         /\ \A metadata \in Considered :
              Queryable(database, TableOf(metadata)) =>
                DataAssetName(Settings, metadata) \in DOMAIN data_assets
    /\ (~Settings.skip_inapplicable_tables
        /\ \E metadata \in Considered : ~Queryable(database, TableOf(metadata))) =>
         r_out = Raise("ValueError")
    /\ \A table \in CachedTables : Queryable(database, table)

\* C27: after any sequence of cache refreshes data_assets contains exactly
\* the tables of the latest introspection that are not excluded, are
\* included (when included_tables is given) and are queryable: a table that
\* was dropped, or became excluded or unqueryable, is no longer listed.
C27_CacheIsLatestIntrospection ==
  (AtLatestRefresh /\ Returned(r_out)) =>
    DOMAIN data_assets =
      {DataAssetName(Settings, metadata) :
         metadata \in {x \in Considered : Queryable(database, TableOf(x))}}

IIn == Val(i_in)

\* the schemas _introspect_db visits
VisitedSchemas ==
  {database.schemas[k] : k \in {j \in 1..Len(database.schemas) :
     /\ ~(IIn.ignore_information_schemas_and_system_tables
          /\ database.schemas[j] \in information_schemas)
     /\ (IsNone(IIn.schema_name) \/ database.schemas[j] = Val(IIn.schema_name))}}

\* the views of the visited schemas, but for the views named as a system
\* table when system objects are ignored
ExpectedViews ==
  UNION {{<<schema_name, database.views[schema_name][k]>> :
            k \in {j \in 1..Len(database.views[schema_name]) :
                     ~(IIn.ignore_information_schemas_and_system_tables
                       /\ database.views[schema_name][j] \in system_tables)}} :
         schema_name \in VisitedSchemas}

\* the views a result of _introspect_db lists
ViewsOf(tables) ==
  {TableOf(tables[k]) : k \in {j \in 1..Len(tables) : tables[j].type = "view"}}

\* C28: _introspect_db with include_views=True returns every view of every
\* visited schema, except (when system objects are ignored) a view whose own
\* name is a listed system table; whether a view is returned does not depend
\* on the tables of the schema, and the call does not fail for a schema that
\* has views but no tables.
C28_ViewsIndependentOfTables ==
  (~IsNone(i_in) /\ IIn.include_views) =>
    /\ Returned(i_out)
    /\ ViewsOf(i_out.value) = ExpectedViews

----------------------------------------------------------------------------
(* Further properties of resolve_metric_bundle, checked under SpecEngine *)

\* the bundle has an entry whose provider is no aggregate function
HasNonAggregate ==
  \E i \in 1..Len(b_in) : b_in[i].metric_fn_type # "aggregate_fn"

\* C23: resolve_metric_bundle accepts only aggregate metrics: if any entry
\* of the bundle has a provider whose metric_fn_type is not "aggregate_fn",
\* the call raises before any backend aggregate query is executed for any
\* domain, and no metric values are returned.
C23_OnlyAggregateMetrics ==
  (b_out # NotCalled /\ HasNonAggregate) =>
    /\ b_out = Raise("AssertionError")
    /\ LastLog = <<>>

\* the non-aggregate entry comes last, after an aggregate entry over a
\* loaded batch that could have been queried
C23_Witness ==
  /\ b_out = Raise("AssertionError") /\ LastLog = <<>>
  /\ Len(b_in) >= 2
  /\ b_in[Len(b_in)].metric_fn_type # "aggregate_fn"
  /\ b_in[1].metric_fn_type = "aggregate_fn"
  /\ "batch_id" \in DOMAIN b_in[1].domain_kwargs
  /\ b_in[1].domain_kwargs.batch_id \in DOMAIN loaded_batch_data

----------------------------------------------------------------------------
(* Further properties of get_compute_domain, checked under SpecDomain *)

\* the domain kwargs that differ from the ones of the call in "column" only
SameButColumn == {other \in DomainKwargs : WithoutColumn(other) = WithoutColumn(DIn)}

\* C24: get_compute_domain splits accessor keys from compute keys: the
\* compute_domain_kwargs returned never contain "column", the
\* accessor_domain_kwargs returned contain "column" exactly when the input
\* did, the two mappings together equal the input domain kwargs, and two
\* inputs that differ only in "column" yield equal compute_domain_kwargs.
C24_AccessorKeysSplit ==
  Returned(d_out) =>
    /\ "column" \notin DOMAIN d_out.value.compute_domain_kwargs
    /\ ("column" \in DOMAIN d_out.value.accessor_domain_kwargs) <=> ("column" \in DOMAIN DIn)
    /\ DOMAIN d_out.value.accessor_domain_kwargs \subseteq {"column"}
    /\ d_out.value.accessor_domain_kwargs @@ d_out.value.compute_domain_kwargs = DIn
    /\ \A other \in SameButColumn :
         LET r == get_compute_domain(loaded_batch_data, active_batch_id, other)
         IN /\ Returned(r)
            /\ r.value.compute_domain_kwargs = d_out.value.compute_domain_kwargs
            /\ r.value.data = d_out.value.data

\* a column of a filtered batch is addressed
C24_Witness ==
  /\ Returned(d_out)
  /\ "column" \in DOMAIN DIn /\ Truthy(DIn, "row_condition")
  /\ d_out.value.accessor_domain_kwargs = [column |-> DIn.column]
  /\ d_out.value.compute_domain_kwargs # DIn
  /\ Cardinality(SameButColumn) > 1

----------------------------------------------------------------------------
(* Further properties of the metric requests, checked under SpecDeps *)

\* the metrics requested for the tier, all else as in the call
RequestedFor(tier) ==
  ColumnMapExpectation_get_validation_dependencies(self_configuration, GIn.configuration,
    GIn.execution_engine, Some([result_format |-> tier])).out.value.metrics

\* C25: ColumnMapExpectation.get_validation_dependencies requests, for every
\* result format, table.row_count, column_values.nonnull.unexpected_count
\* and <map_metric>.unexpected_count; it adds <map_metric>.unexpected_values
\* for every tier except BOOLEAN_ONLY, <map_metric>.unexpected_rows only for
\* COMPLETE, and <map_metric>.unexpected_index_list only for COMPLETE with a
\* Pandas engine; the metrics requested for a lower tier are a subset of
\* those requested for every higher tier.
C25_RequestsByTier ==
  Returned(g_out) =>
    LET tier == g_out.value.result_format.result_format
        metrics == g_out.value.metrics
    IN /\ {RowCount, NullCount, UnexpectedCount} \subseteq metrics
       /\ metrics \subseteq {RowCount, NullCount, UnexpectedCount, UnexpectedValues,
                             UnexpectedRows, UnexpectedIndexList}
       /\ (UnexpectedValues \in metrics) <=> (tier # "BOOLEAN_ONLY")
       /\ (UnexpectedRows \in metrics) <=> (tier = "COMPLETE")
       /\ (UnexpectedIndexList \in metrics) <=>
            (tier = "COMPLETE" /\ GIn.execution_engine = "PandasExecutionEngine")
       /\ \A lower \in KnownFormats :
            TierIndex(lower) <= TierIndex(tier) => RequestedFor(lower) \subseteq metrics
       /\ \A higher \in KnownFormats :
            TierIndex(tier) <= TierIndex(higher) => metrics \subseteq RequestedFor(higher)

\* COMPLETE is requested of a Pandas engine through the runtime
\* configuration, over a configured BOOLEAN_ONLY
C25_Witness ==
  /\ Returned(g_out)
  /\ GIn.execution_engine = "PandasExecutionEngine"
  /\ GIn.runtime_configuration = Some([result_format |-> "COMPLETE"])
  /\ Get(DepsConfiguration.kwargs, "result_format") = Some("BOOLEAN_ONLY")
  /\ g_out.value.metrics = {RowCount, NullCount, UnexpectedCount, UnexpectedValues,
                            UnexpectedRows, UnexpectedIndexList}
  /\ RequestedFor("BOOLEAN_ONLY") = {RowCount, NullCount, UnexpectedCount}

----------------------------------------------------------------------------
(* Further properties of the map expectations, checked under SpecValidate *)

\* the threshold of the configuration passed to the call, or the class
\* default when it has none
ArgumentMostly ==
  IF "mostly" \in DOMAIN Val(VIn.configuration).kwargs
  THEN Val(VIn.configuration).kwargs.mostly
  ELSE DefaultMostly

\* C26: the verdict of ColumnMapExpectation._validate / metrics_validate is
\* determined by the configuration passed as argument: the threshold mostly
\* compared against the success ratio is the one of that configuration (or
\* the class default when it has none), independent of whether, and with
\* which other configuration, the expectation instance was constructed.
C26_VerdictFollowsArgument ==
  (/\ Called("ColumnMapExpectation")
   /\ ~IsNone(VIn.configuration)
   /\ CountsKnown(VIn.metrics)) =>
     /\ v_out # Raise("InvalidExpectationConfigurationError")
     /\ Returned(v_out) =>
          v_out.value.success
            = RatioRule(VIn.metrics[RowCount], VIn.metrics[NullCount],
                        VIn.metrics[UnexpectedCount], ArgumentMostly)

----------------------------------------------------------------------------
(* Further properties of the batch operations, checked under SpecBatch *)

\* C29: load_batch can be called repeatedly with the same in-memory
\* (RuntimeDataBatchSpec) batch spec object: every call succeeds and returns
\* a Batch holding the same data; a call does not consume or invalidate the
\* caller's spec for later calls.
C29_LoadBatchRepeatable ==
  (/\ CalledOp("load_batch") /\ Len(s_log) > 0
   /\ SIn.batch_spec.cls = "RuntimeDataBatchSpec") =>
     /\ Returned(s_out)
     /\ s_out.value.data = s_log[1].out.value.data

----------------------------------------------------------------------------
(* Properties of the kwargs passed on, checked under SpecKwargs *)

\* C30: resolving kwargs is read-only on its inputs: get_runtime_kwargs,
\* and get_validation_dependencies which calls it, leave the kwargs of the
\* given ExpectationConfiguration unchanged, so that an override of
\* runtime_configuration such as result_format does not persist into the
\* configuration across calls; and get_compute_domain leaves the caller's
\* domain_kwargs mapping unchanged.
C30_KwargsReadOnly ==
  /\ (DepsCalled /\ Returned(g_out)) =>
       /\ g_conf = GIn.first
       /\ GIn.call = 2 =>
            g_out.value.result_format.result_format
              = GetOr(Val(GIn.first).kwargs, "result_format", DefaultResultFormat)
  /\ d_out # NotCalled => d_arg = d_in

\* the first call overrode the result_format of the configuration, the
\* second resolved the configuration's own, and a compute domain was
\* returned for domain kwargs that name a column
C30_Witness ==
  /\ DepsCalled /\ Returned(g_out) /\ GIn.call = 2
  /\ GIn.before = Some([result_format |-> "COMPLETE"])
  /\ g_out.value.result_format.result_format = "SUMMARY"
  /\ Returned(d_out)
  /\ "column" \in DOMAIN DIn
  /\ "column" \notin DOMAIN d_out.value.compute_domain_kwargs
  /\ d_arg = Some(DIn)

====
